---------------------------- MODULE Spec2Model ----------------------------
(***************************************************************************)
(* Model of the client-intake conversation orchestrators                   *)
(* (app/services/conversation_service.py, orchestration_service.py,        *)
(* firebase_service.py, ai_chain.py).                                      *)
(*                                                                         *)
(* Python dicts are functions with a string domain (a key that is not in   *)
(* the domain is an absent key); texts are sequences of one-character      *)
(* strings, so that strip(), lower(), isdigit(), "in" and slicing are      *)
(* computed and not assumed.  A handler is an operator from the world      *)
(* before the call and the outcome of each collaborator call to the world  *)
(* after it and the value returned; an action applies one handler.         *)
(***************************************************************************)
EXTENDS Integers, Sequences, FiniteSets, TLC

VARIABLES
    store,            \* Firestore collection user_sessions: session id -> document
    leads,            \* Firestore collection leads, in creation order
    flow_doc,         \* Firestore document conversation_flows/law_firm_intake
    flow_cache,       \* ConversationManager.flow_cache
    cache_timestamp,  \* ConversationManager.cache_timestamp
    now,              \* the wall clock read by datetime.now(), in seconds
    last,             \* the last call: operation, arguments, value returned, collaborator calls
    turns,            \* the process_message calls in flight: position, arguments, local session_data
    conversation_memories,  \* ai_chain.conversation_memories: session id -> chat_memory.messages
    ticks             \* history: number of clock steps taken

vars == <<store, leads, flow_doc, flow_cache, cache_timestamp, now, last,
          turns, conversation_memories, ticks>>

-----------------------------------------------------------------------------
(* Bounds of the model *)

MaxLeads == 2      \* lead documents the lead store holds at most
MaxTicks == 1      \* clock steps of a behaviour
MaxFailures == 1   \* collaborators that fail during one call
MaxAnswerLen == 3  \* length of the enumerated answer texts
MaxMessages == 2   \* process_message turns counted on a stored session
MaxAdvances == 3   \* clock advances in the flow-cache specification
MaxHistory == 11   \* turns of the longest history passed in the generation-memory specification
MaxRemembered == 2 \* turns a session's generation memory holds in the orchestrator specifications

-----------------------------------------------------------------------------
(* Python dict and str operations *)

EmptyDict == [k \in {} |-> 0]

Get(d, k, dflt) == IF k \in DOMAIN d THEN d[k] ELSE dflt

Update(d, o) ==
    [k \in DOMAIN d \cup DOMAIN o |-> IF k \in DOMAIN o THEN o[k] ELSE d[k]]

UpperChars ==
    <<"A","B","C","D","E","F","G","H","I","J","K","L","M","N","O","P","Q","R","S","T","U","V","W","X","Y","Z","Á","À","Â","Ã","É","Ê","Í","Ó","Ô","Õ","Ú","Ç">>
LowerChars ==
    <<"a","b","c","d","e","f","g","h","i","j","k","l","m","n","o","p","q","r","s","t","u","v","w","x","y","z","á","à","â","ã","é","ê","í","ó","ô","õ","ú","ç">>

LowerChar(c) ==
    IF \E i \in 1..Len(UpperChars) : UpperChars[i] = c
    THEN LowerChars[CHOOSE i \in 1..Len(UpperChars) : UpperChars[i] = c]
    ELSE c

RECURSIVE Lower(_)
Lower(s) == IF s = <<>> THEN <<>> ELSE <<LowerChar(Head(s))>> \o Lower(Tail(s))

IsSpace(c) == c \in {" ", "\n", "\t"}

RECURSIVE LStrip(_)
LStrip(s) == IF s # <<>> /\ IsSpace(Head(s)) THEN LStrip(Tail(s)) ELSE s

RECURSIVE RStrip(_)
RStrip(s) ==
    IF s # <<>> /\ IsSpace(s[Len(s)]) THEN RStrip(SubSeq(s, 1, Len(s) - 1)) ELSE s

Strip(s) == RStrip(LStrip(s))

IsDigitChar(c) == c \in {"0","1","2","3","4","5","6","7","8","9"}

IsDigit(s) == s # <<>> /\ \A i \in 1..Len(s) : IsDigitChar(s[i])

Contains(s, t) ==
    \E i \in 0..(Len(s) - Len(t)) : \A k \in 1..Len(t) : s[i + k] = t[k]

InList(s, list) == \E i \in 1..Len(list) : list[i] = s

Take(s, n) == SubSeq(s, 1, IF Len(s) < n THEN Len(s) ELSE n)

FilterDigits(s) == SelectSeq(s, IsDigitChar)

UpperChar(c) ==
    IF \E i \in 1..Len(LowerChars) : LowerChars[i] = c
    THEN UpperChars[CHOOSE i \in 1..Len(LowerChars) : LowerChars[i] = c]
    ELSE c

(* str.isalpha on one character, and whether the character has a case *)
IsAlphaChar(c) ==
    \E i \in 1..Len(LowerChars) : LowerChars[i] = c \/ UpperChars[i] = c

IsAlpha(s) == s # <<>> /\ \A i \in 1..Len(s) : IsAlphaChar(s[i])

(* str.title: a cased character after an uncased one is upper-cased, the others lower-cased *)
RECURSIVE TitleFrom(_, _)
TitleFrom(s, i) ==
    IF i > Len(s) THEN <<>>
    ELSE <<IF i > 1 /\ IsAlphaChar(s[i - 1]) THEN LowerChar(s[i]) ELSE UpperChar(s[i])>>
             \o TitleFrom(s, i + 1)

Title(s) == TitleFrom(s, 1)

(* str.split(): the whitespace-separated words *)
RECURSIVE Split(_)
Split(s) ==
    LET t == LStrip(s)
    IN  IF t = <<>> THEN <<>>
        ELSE LET n == IF \E i \in 1..Len(t) : IsSpace(t[i])
                      THEN CHOOSE i \in 1..Len(t) :
                               IsSpace(t[i]) /\ \A j \in 1..(i - 1) : ~IsSpace(t[j])
                      ELSE Len(t) + 1
             IN  <<SubSeq(t, 1, n - 1)>> \o Split(SubSeq(t, n, Len(t)))

(* " ".join(words) *)
RECURSIVE JoinWords(_)
JoinWords(words) ==
    IF words = <<>> THEN <<>>
    ELSE IF Len(words) = 1 THEN words[1]
    ELSE words[1] \o <<" ">> \o JoinWords(Tail(words))

RemoveChar(s, c) == SelectSeq(s, LAMBDA x : x # c)

AnyIn(list, s) == \E i \in 1..Len(list) : Contains(s, list[i])


-----------------------------------------------------------------------------
(* Texts of the model *)

MariaSilva == <<"M","a","r","i","a"," ","S","i","l","v","a">>
Civil == <<"c","i","v","i","l">>
Preciso == <<"p","r","e","c","i","s","o"," ","d","e"," ","a","j","u","d","a"," ","c","o","m"," ","u","m"," ","c","o","n","t","r","a","t","o">>
Sim == <<"s","i","m">>
Phone11 == <<"1","1","9","9","9","9","9","9","9","9","9">>
ThankYou == <<"T","h","a","n","k"," ","y","o","u"," ","f","o","r"," ","y","o","u","r"," ","i","n","f","o","r","m","a","t","i","o","n",".">>
Unknown == <<"U","n","k","n","o","w","n">>
NotSpecified == <<"N","o","t"," ","s","p","e","c","i","f","i","e","d">>
NotProvided == <<"N","o","t"," ","p","r","o","v","i","d","e","d">>
Cliente == <<"C","l","i","e","n","t","e">>
NaoEspecificada == <<"N","ã","o"," ","e","s","p","e","c","i","f","i","c","a","d","a">>
NaoInformada == <<"N","ã","o"," ","i","n","f","o","r","m","a","d","a">>
WhatsAppSuffix == <<"@","s",".","w","h","a","t","s","a","p","p",".","n","e","t">>

Messages == {MariaSilva, Civil, Preciso, Sim, Phone11}

(* Further inbound texts: a number at the name step, and phones of 5, 10 and *)
(* 11 digits, the last one written with punctuation.                         *)
FortyTwo == <<"4","2">>
Phone5 == <<"1","1","9","9","9">>
Phone10 == <<"1","1","9","9","9","9","9","9","9","9">>
PhonePunctuated == <<"(","1","1",")"," ","9","8","7","6","5","-","4","3","2","1">>

(* Further messages of the AI-first conversation: a second name, a second    *)
(* area, and one message that names two areas                               *)
AnaSouza == <<"A","n","a"," ","S","o","u","z","a">>
Penal == <<"p","e","n","a","l">>
CivilPenal == <<"c","i","v","i","l"," ","e"," ","p","e","n","a","l">>

(* A name typed with blanks around it *)
MariaPadded == <<" ","M","a","r","i","a"," ">>

SessionIds == {"s1"}

-----------------------------------------------------------------------------
(* firebase_service.py *)

DefaultFlow ==
    [steps |-> << [id |-> 1, question |-> "Q_name", field |-> "name"],
                  [id |-> 2, question |-> "Q_area_of_law", field |-> "area_of_law"],
                  [id |-> 3, question |-> "Q_situation", field |-> "situation"],
                  [id |-> 4, question |-> "Q_wants_meeting", field |-> "wants_meeting"] >>]

(* A flow as a lawyer may have edited it in the store: the name step removed. *)
EditedFlow ==
    [steps |-> << [id |-> 2, question |-> "Q_area_of_law", field |-> "area_of_law"],
                  [id |-> 3, question |-> "Q_situation", field |-> "situation"] >>]

NoFlow == EmptyDict      \* the flow document does not exist / flow_cache is None

NoSession == EmptyDict   \* get_user_session returned None (callers test truthiness only)

MapKeys == {"responses", "lead_data"}

(* DocumentReference.set(data, merge=True): every leaf of data is written, a  *)
(* non-empty map is merged key by key, an empty map replaces the field.      *)
MergeSet(old, data) ==
    [k \in DOMAIN old \cup DOMAIN data |->
        IF k \notin DOMAIN data THEN old[k]
        ELSE IF k \in MapKeys /\ k \in DOMAIN old /\ DOMAIN data[k] # {}
             THEN Update(old[k], data[k])
             ELSE data[k]]

Failed(w, what) == [w EXCEPT !.tr.failed = @ \cup {what}]

(* The collaborator calls of one operation call, in the order they are     *)
(* issued: a session write with the data handed to it, a bridge send.      *)
WriteCall(session_data) == [name |-> "save_user_session", data |-> session_data]

BridgeCall == [name |-> "send_whatsapp_message", data |-> EmptyDict]

(* get_user_session: the document, or None when it does not exist or the read fails *)
get_user_session(w, sid, env) ==
    IF ~env.sread THEN [w |-> Failed(w, "sread"), data |-> NoSession]
    ELSE [w |-> w, data |-> IF sid \in DOMAIN w.store THEN w.store[sid] ELSE NoSession]

(* save_user_session: stamps last_updated (and created_at when the caller's record has none), *)
(* then merge-writes; a failure is logged and False is returned                               *)
save_user_session(w, sid, session_data, env) ==
    IF ~env.swrite
    THEN [Failed(w, "swrite") EXCEPT !.tr.calls = Append(@, WriteCall(session_data))]
    ELSE LET old == IF sid \in DOMAIN w.store THEN w.store[sid] ELSE EmptyDict
             stamped == Update(Update([created_at |-> w.now], session_data),
                               [last_updated |-> w.now])
             doc == MergeSet(old, stamped)
         IN [w EXCEPT !.store = [s \in DOMAIN w.store \cup {sid} |->
                                    IF s = sid THEN doc ELSE w.store[s]],
                      !.tr.swrites = @ + 1,
                      !.tr.calls = Append(@, WriteCall(session_data))]

(* save_lead_data, except that the values the caller compiled are kept *)
save_lead_data_keeps_caller_values(w, lead_data, env) ==
    IF ~env.lead THEN [raised |-> TRUE, w |-> Failed(w, "lead"), id |-> 0]
    ELSE LET doc == Update([timestamp |-> w.now,
                            status |-> "new",
                            source |-> "chatbot_intake",
                            created_at |-> w.now,
                            updated_at |-> w.now], lead_data)
         IN [raised |-> FALSE,
             w |-> [w EXCEPT !.leads = Append(@, doc)],
             id |-> Len(w.leads) + 1]

(* save_lead_data: stamps times, status and source, adds the document, returns its id; raises on failure *)
save_lead_data(w, lead_data, env) ==
    IF ~env.lead THEN [raised |-> TRUE, w |-> Failed(w, "lead"), id |-> 0]
    ELSE LET doc == Update(lead_data, [timestamp |-> w.now,
                                       status |-> "new",
                                       source |-> "chatbot_intake",
                                       created_at |-> w.now,
                                       updated_at |-> w.now])
         IN [raised |-> FALSE,
             w |-> [w EXCEPT !.leads = Append(@, doc)],
             id |-> Len(w.leads) + 1]

(* update_lead_data: stamps updated_at and updates the fields of the stored  *)
(* document; a failure (the lead store fails, no such document) is logged    *)
(* and False is returned.  No orchestrator calls it.                         *)
update_lead_data(w, lead_id, update_data, env) ==
    IF ~env.lead \/ lead_id \notin 1..Len(w.leads) THEN Failed(w, "lead")
    ELSE [w EXCEPT !.leads[lead_id] = Update(@, Update(update_data, [updated_at |-> w.now]))]

(* get_conversation_flow: the stored flow, creating the default flow when none exists; raises on failure *)
get_conversation_flow(w, env) ==
    IF ~env.flow THEN [raised |-> TRUE, w |-> Failed(w, "flow"), flow |-> NoFlow]
    ELSE IF w.doc = NoFlow
         THEN [raised |-> FALSE, w |-> [w EXCEPT !.doc = DefaultFlow], flow |-> DefaultFlow]
         ELSE [raised |-> FALSE, w |-> w, flow |-> w.doc]


-----------------------------------------------------------------------------
(* ai_chain.py / ai_service.py *)

(* _get_session_history, except that every session reads one shared memory *)
_get_session_history_shared(mem, sid) == Get(mem, "s1", <<>>)

(* _get_session_history (lines 152-158): the messages of the session's memory, *)
(* which is created empty when the session has none                           *)
_get_session_history(mem, sid) == Get(mem, sid, <<>>)

(* chain.ainvoke (lines 192-195): the history of the session is read and     *)
(* passed, with the input, to the generation service; the call is recorded  *)
ainvoke(w, message, sid, env) ==
    LET history == _get_session_history(w.mem, sid)
    IN  [w EXCEPT !.mem = Update(@, [s \in {sid} |-> history]),
                  !.tr.gen = Append(@, message),
                  !.tr.hist = Append(@, history),
                  !.tr.gen_failed = @ \/ ~env.gen]

(* add_user_message and add_ai_message (lines 198-199) *)
RememberTurn(w, message, sid, response) ==
    [w EXCEPT !.mem[sid] = @ \o <<[type |-> "human", content |-> message],
                                   [type |-> "ai", content |-> response]>>]

(* generate_response (lines 160-206): the generation call with a context.   *)
(* The memory of the session is created when absent; the turn is added to   *)
(* it when the call returns; every failure is answered by the fallback text *)
(* clear_session_memory: the memory of the session is deleted *)
clear_session_memory(w, sid) ==
    [w EXCEPT !.mem = [s \in DOMAIN w.mem \ {sid} |-> w.mem[s]]]

(* generate_response, except that the user message is added to the memory  *)
(* before the generation call                                              *)
generate_response_remembers_first(w, message, sid, context, env) ==
    LET called == ainvoke(w, message, sid, env)
        w2 == [called EXCEPT !.tr.ctx = Append(@, context),
                             !.mem[sid] = @ \o <<[type |-> "human", content |-> message]>>]
    IN  IF env.gen
        THEN [w |-> [w2 EXCEPT !.mem[sid] = @ \o <<[type |-> "ai", content |-> "AI_TEXT"]>>],
              text |-> "AI_TEXT"]
        ELSE [w |-> w2, text |-> "AI_FALLBACK"]

generate_response(w, message, sid, context, env) ==
    LET called == ainvoke(w, message, sid, env)
        w2 == [called EXCEPT !.tr.ctx = Append(@, context)]
    IN  IF env.gen
        THEN [w |-> RememberTurn(w2, message, sid, "AI_TEXT"), text |-> "AI_TEXT"]
        ELSE [w |-> w2, text |-> "AI_FALLBACK"]

(* process_chat_message, except that a failed generation call is made once more *)
process_chat_message_retries(w, message, sid, env) ==
    LET called == ainvoke(w, message, sid, env)
    IN  IF env.gen
        THEN [w |-> RememberTurn(called, message, sid, "AI_TEXT"), text |-> "AI_TEXT"]
        ELSE [w |-> ainvoke(called, message, sid, env), text |-> "AI_FALLBACK"]

(* process_chat_message of ai_service: generate_response without a context;  *)
(* the generated text, or a fixed fallback text when the generation call    *)
(* fails; it never raises.                                                  *)
process_chat_message(w, message, sid, env) ==
    LET called == ainvoke(w, message, sid, env)
    IN  IF env.gen
        THEN [w |-> RememberTurn(called, message, sid, "AI_TEXT"), text |-> "AI_TEXT"]
        ELSE [w |-> called, text |-> "AI_FALLBACK"]


-----------------------------------------------------------------------------
(* conversation_service.py: ConversationManager *)

CacheTTL == 300
SecondsPerDay == 86400

(* timedelta.seconds of a non-negative difference: the seconds within the day *)
SecondsOf(d) == d % SecondsPerDay

FindStep(flow, id) ==
    IF \E i \in 1..Len(flow.steps) : flow.steps[i].id = id
    THEN flow.steps[CHOOSE i \in 1..Len(flow.steps) :
                        /\ flow.steps[i].id = id
                        /\ \A j \in 1..(i - 1) : flow.steps[j].id # id]
    ELSE EmptyDict

get_flow(w, env) ==
    IF w.cache = NoFlow \/ SecondsOf(w.now - w.ts) > CacheTTL
    THEN LET r == get_conversation_flow(w, env)
         IN IF r.raised THEN r
            ELSE [raised |-> FALSE,
                  w |-> [r.w EXCEPT !.cache = r.flow, !.ts = w.now],
                  flow |-> r.flow]
    ELSE [raised |-> FALSE, w |-> w, flow |-> w.cache]

irrelevant_patterns ==
    << <<"o","i">>,
       <<"o","l","á">>,
       <<"h","e","l","l","o">>,
       <<"h","i">>,
       <<"t","c","h","a","u">>,
       <<"b","y","e">>,
       <<"o","b","r","i","g","a","d","o">>,
       <<"t","h","a","n","k","s">>,
       <<"o","k">>,
       <<"t","á">>,
       <<"s","i","m">>,
       <<"n","ã","o">>,
       <<"y","e","s">>,
       <<"n","o">>,
       <<"?","?","?">>,
       <<"?","?","?">> >>

legal_terms ==
    << <<"p","e","n","a","l">>,
       <<"c","i","v","i","l">>,
       <<"t","r","a","b","a","l","h","i","s","t","a">>,
       <<"c","r","i","m","i","n","a","l">>,
       <<"f","a","m","í","l","i","a">>,
       <<"e","m","p","r","e","s","a","r","i","a","l">>,
       <<"1">>,
       <<"2">>,
       <<"3">>,
       <<"4">> >>

(* _is_response_relevant, except that the answer is not trimmed *)
_is_response_relevant_untrimmed(response, step_data) ==
    LET response_lower == Lower(response)
        field == Get(step_data, "field", "")
    IN  IF Len(response_lower) < 2 THEN FALSE
        ELSE IF InList(response_lower, irrelevant_patterns) THEN FALSE
        ELSE IF field = "name" /\ (Len(response_lower) < 2 \/ IsDigit(response_lower))
             THEN FALSE
        ELSE IF /\ field = "area_of_law"
                /\ ~\E i \in 1..Len(legal_terms) : Contains(response_lower, legal_terms[i])
             THEN FALSE
        ELSE TRUE

_is_response_relevant(response, step_data) ==
    LET response_lower == Strip(Lower(response))
        field == Get(step_data, "field", "")
    IN  IF Len(response_lower) < 2 THEN FALSE
        ELSE IF InList(response_lower, irrelevant_patterns) THEN FALSE
        ELSE IF field = "name" /\ (Len(response_lower) < 2 \/ IsDigit(response_lower))
             THEN FALSE
        ELSE IF /\ field = "area_of_law"
                /\ ~\E i \in 1..Len(legal_terms) : Contains(response_lower, legal_terms[i])
             THEN FALSE
        ELSE TRUE

(* _switch_to_ai_mode: force the three flags on the stored session, then answer by generation *)
_switch_to_ai_mode(w, sid, user_message, env) ==
    LET g == get_user_session(w, sid, env)
        session_data == Update(g.data, [ai_mode |-> TRUE,
                                        flow_completed |-> TRUE,
                                        phone_collected |-> TRUE,
                                        switched_to_ai_at |-> w.now,
                                        last_updated |-> w.now])
        w2 == save_user_session(g.w, sid, session_data, env)
        a == process_chat_message(w2, user_message, sid, env)
    IN  [raised |-> FALSE,
         w |-> a.w,
         resp |-> [session_id |-> sid, response |-> a.text, ai_mode |-> TRUE,
                   flow_completed |-> TRUE, phone_collected |-> TRUE]]

(* start_conversation creating the session before the first step *)
start_conversation_step_zero(w, sid, env) ==
    LET f == get_flow(w, env)
    IN  IF f.raised THEN [raised |-> TRUE, w |-> f.w, resp |-> EmptyDict]
        ELSE LET session_data == [session_id |-> sid,
                                  current_step |-> 0,
                                  responses |-> EmptyDict,
                                  flow_completed |-> FALSE,
                                  ai_mode |-> FALSE,
                                  phone_collected |-> FALSE,
                                  started_at |-> w.now,
                                  last_updated |-> w.now]
                 w2 == save_user_session(f.w, sid, session_data, env)
                 first_step == FindStep(f.flow, 1)
             IN  IF first_step = EmptyDict
                 THEN [raised |-> TRUE, w |-> w2, resp |-> EmptyDict]
                 ELSE [raised |-> FALSE,
                       w |-> w2,
                       resp |-> [session_id |-> sid,
                                 question |-> first_step.question,
                                 step_id |-> first_step.id,
                                 is_final_step |-> (Len(f.flow.steps) = 1),
                                 flow_completed |-> FALSE,
                                 ai_mode |-> FALSE,
                                 phone_collected |-> FALSE]]

start_conversation(w, sid, env) ==
    LET f == get_flow(w, env)
    IN  IF f.raised THEN [raised |-> TRUE, w |-> f.w, resp |-> EmptyDict]
        ELSE LET session_data == [session_id |-> sid,
                                  current_step |-> 1,
                                  responses |-> EmptyDict,
                                  flow_completed |-> FALSE,
                                  ai_mode |-> FALSE,
                                  phone_collected |-> FALSE,
                                  started_at |-> w.now,
                                  last_updated |-> w.now]
                 w2 == save_user_session(f.w, sid, session_data, env)
                 first_step == FindStep(f.flow, 1)
             IN  IF first_step = EmptyDict
                 THEN [raised |-> TRUE, w |-> w2, resp |-> EmptyDict]
                 ELSE [raised |-> FALSE,
                       w |-> w2,
                       resp |-> [session_id |-> sid,
                                 question |-> first_step.question,
                                 step_id |-> first_step.id,
                                 is_final_step |-> (Len(f.flow.steps) = 1),
                                 flow_completed |-> FALSE,
                                 ai_mode |-> FALSE,
                                 phone_collected |-> FALSE]]

(* _complete_flow entering AI mode at once, without asking for the phone *)
_complete_flow_skips_phone(w, sid, session_data, env) ==
    LET responses == Get(session_data, "responses", EmptyDict)
        lead_data == [name |-> Get(responses, "name", Unknown),
                      area_of_law |-> Get(responses, "area_of_law", NotSpecified),
                      situation |-> Get(responses, "situation", NotProvided),
                      wants_meeting |-> Get(responses, "wants_meeting", NotSpecified),
                      session_id |-> sid,
                      completed_at |-> w.now,
                      status |-> "intake_completed"]
        l == save_lead_data(w, lead_data, env)
    IN  IF l.raised THEN _switch_to_ai_mode(l.w, sid, ThankYou, env)
        ELSE LET sd == Update(session_data, [flow_completed |-> TRUE,
                                             ai_mode |-> TRUE,
                                             phone_collected |-> TRUE,
                                             lead_id |-> l.id,
                                             completed_at |-> w.now,
                                             last_updated |-> w.now])
                 w2 == save_user_session(l.w, sid, sd, env)
             IN  [raised |-> FALSE,
                  w |-> w2,
                  resp |-> [session_id |-> sid, question |-> "PHONE_PROMPT",
                            flow_completed |-> TRUE, ai_mode |-> FALSE,
                            phone_collected |-> FALSE, lead_saved |-> TRUE,
                            lead_id |-> l.id, collecting_phone |-> TRUE]]

_complete_flow(w, sid, session_data, env) ==
    LET responses == Get(session_data, "responses", EmptyDict)
        lead_data == [name |-> Get(responses, "name", Unknown),
                      area_of_law |-> Get(responses, "area_of_law", NotSpecified),
                      situation |-> Get(responses, "situation", NotProvided),
                      wants_meeting |-> Get(responses, "wants_meeting", NotSpecified),
                      session_id |-> sid,
                      completed_at |-> w.now,
                      status |-> "intake_completed"]
        l == save_lead_data(w, lead_data, env)
    IN  IF l.raised THEN _switch_to_ai_mode(l.w, sid, ThankYou, env)
        ELSE LET sd == Update(session_data, [flow_completed |-> TRUE,
                                             ai_mode |-> FALSE,
                                             phone_collected |-> FALSE,
                                             lead_id |-> l.id,
                                             completed_at |-> w.now,
                                             last_updated |-> w.now])
                 w2 == save_user_session(l.w, sid, sd, env)
             IN  [raised |-> FALSE,
                  w |-> w2,
                  resp |-> [session_id |-> sid, question |-> "PHONE_PROMPT",
                            flow_completed |-> TRUE, ai_mode |-> FALSE,
                            phone_collected |-> FALSE, lead_saved |-> TRUE,
                            lead_id |-> l.id, collecting_phone |-> TRUE]]

(* The number formatted for the messaging bridge in _handle_phone_collection *)
(* (lines 336-340), given the digits of an answer that passed validation     *)
FormatPhoneGuided(phone_clean) ==
    IF Len(phone_clean) = 10
    THEN <<"5","5">> \o SubSeq(phone_clean, 1, 2) \o <<"9">>
             \o SubSeq(phone_clean, 3, Len(phone_clean))
    ELSE <<"5","5">> \o phone_clean

(* _handle_phone_collection, except that short numbers pass the validation *)
_handle_phone_collection_accepts_short(w, sid, session_data, user_response, env) ==
    LET phone_clean == FilterDigits(user_response)
    IN  IF Len(phone_clean) > 11
        THEN [raised |-> FALSE,
              w |-> w,
              resp |-> [session_id |-> sid, question |-> "PHONE_REPROMPT",
                        flow_completed |-> TRUE, ai_mode |-> FALSE,
                        phone_collected |-> FALSE, collecting_phone |-> TRUE,
                        validation_error |-> TRUE]]
        ELSE LET phone_formatted == FormatPhoneGuided(phone_clean)
                 sd == Update(session_data, [phone_collected |-> TRUE,
                                             ai_mode |-> TRUE,
                                             phone_number |-> phone_clean,
                                             phone_formatted |-> phone_formatted,
                                             last_updated |-> w.now])
                 w2 == save_user_session(w, sid, sd, env)
                 responses == Get(sd, "responses", EmptyDict)
                 whatsapp_message ==
                     [user_name |-> Get(responses, "name", Cliente),
                      area |-> Get(responses, "area_of_law", NaoEspecificada),
                      situation |-> Take(Get(responses, "situation", NaoInformada), 100)]
                 w3 == [w2 EXCEPT !.tr.sent =
                            Append(@, [to |-> phone_formatted \o WhatsAppSuffix,
                                       text |-> whatsapp_message,
                                       result |-> env.bridge]),
                          !.tr.calls = Append(@, BridgeCall)]
                 whatsapp_success == (env.bridge = "true")
             IN  [raised |-> FALSE,
                  w |-> IF env.bridge = "raise" THEN Failed(w3, "bridge") ELSE w3,
                  resp |-> [session_id |-> sid, response |-> "PHONE_CONFIRMATION",
                            flow_completed |-> TRUE, ai_mode |-> TRUE,
                            phone_collected |-> TRUE,
                            whatsapp_sent |-> whatsapp_success,
                            phone_number |-> phone_clean]]

(* _handle_phone_collection, except that the flags follow the bridge's report *)
_handle_phone_collection_needs_bridge(w, sid, session_data, user_response, env) ==
    LET phone_clean == FilterDigits(user_response)
    IN  IF Len(phone_clean) < 10 \/ Len(phone_clean) > 11
        THEN [raised |-> FALSE,
              w |-> w,
              resp |-> [session_id |-> sid, question |-> "PHONE_REPROMPT",
                        flow_completed |-> TRUE, ai_mode |-> FALSE,
                        phone_collected |-> FALSE, collecting_phone |-> TRUE,
                        validation_error |-> TRUE]]
        ELSE LET phone_formatted == FormatPhoneGuided(phone_clean)
                 sd == Update(session_data, [phone_collected |-> (env.bridge = "true"),
                                             ai_mode |-> (env.bridge = "true"),
                                             phone_number |-> phone_clean,
                                             phone_formatted |-> phone_formatted,
                                             last_updated |-> w.now])
                 w2 == save_user_session(w, sid, sd, env)
                 responses == Get(sd, "responses", EmptyDict)
                 whatsapp_message ==
                     [user_name |-> Get(responses, "name", Cliente),
                      area |-> Get(responses, "area_of_law", NaoEspecificada),
                      situation |-> Take(Get(responses, "situation", NaoInformada), 100)]
                 w3 == [w2 EXCEPT !.tr.sent =
                            Append(@, [to |-> phone_formatted \o WhatsAppSuffix,
                                       text |-> whatsapp_message,
                                       result |-> env.bridge]),
                          !.tr.calls = Append(@, BridgeCall)]
                 whatsapp_success == (env.bridge = "true")
             IN  [raised |-> FALSE,
                  w |-> IF env.bridge = "raise" THEN Failed(w3, "bridge") ELSE w3,
                  resp |-> [session_id |-> sid, response |-> "PHONE_CONFIRMATION",
                            flow_completed |-> TRUE, ai_mode |-> TRUE,
                            phone_collected |-> TRUE,
                            whatsapp_sent |-> whatsapp_success,
                            phone_number |-> phone_clean]]

(* _handle_phone_collection, except that an accepted phone number records  *)
(* phone_collected without switching the session to AI mode                *)
_handle_phone_collection_keeps_mode(w, sid, session_data, user_response, env) ==
    LET phone_clean == FilterDigits(user_response)
    IN  IF Len(phone_clean) < 10 \/ Len(phone_clean) > 11
        THEN [raised |-> FALSE,
              w |-> w,
              resp |-> [session_id |-> sid, question |-> "PHONE_REPROMPT",
                        flow_completed |-> TRUE, ai_mode |-> FALSE,
                        phone_collected |-> FALSE, collecting_phone |-> TRUE,
                        validation_error |-> TRUE]]
        ELSE LET sd == Update(session_data, [phone_collected |-> TRUE,
                                             phone_number |-> phone_clean,
                                             last_updated |-> w.now])
             IN  [raised |-> FALSE,
                  w |-> save_user_session(w, sid, sd, env),
                  resp |-> [session_id |-> sid, response |-> "PHONE_CONFIRMATION",
                            flow_completed |-> TRUE, ai_mode |-> FALSE,
                            phone_collected |-> TRUE,
                            whatsapp_sent |-> FALSE,
                            phone_number |-> phone_clean]]

(* _handle_phone_collection, except that the bridge send precedes the       *)
(* session write                                                           *)
_handle_phone_collection_sends_first(w, sid, session_data, user_response, env) ==
    LET phone_clean == FilterDigits(user_response)
    IN  IF Len(phone_clean) < 10 \/ Len(phone_clean) > 11
        THEN [raised |-> FALSE,
              w |-> w,
              resp |-> [session_id |-> sid, question |-> "PHONE_REPROMPT",
                        flow_completed |-> TRUE, ai_mode |-> FALSE,
                        phone_collected |-> FALSE, collecting_phone |-> TRUE,
                        validation_error |-> TRUE]]
        ELSE LET phone_formatted == FormatPhoneGuided(phone_clean)
                 sd == Update(session_data, [phone_collected |-> TRUE,
                                             ai_mode |-> TRUE,
                                             phone_number |-> phone_clean,
                                             phone_formatted |-> phone_formatted,
                                             last_updated |-> w.now])
                 responses == Get(sd, "responses", EmptyDict)
                 whatsapp_message ==
                     [user_name |-> Get(responses, "name", Cliente),
                      area |-> Get(responses, "area_of_law", NaoEspecificada),
                      situation |-> Take(Get(responses, "situation", NaoInformada), 100)]
                 w2 == [w EXCEPT !.tr.sent =
                            Append(@, [to |-> phone_formatted \o WhatsAppSuffix,
                                       text |-> whatsapp_message,
                                       result |-> env.bridge]),
                          !.tr.calls = Append(@, BridgeCall)]
                 w3 == save_user_session(w2, sid, sd, env)
                 whatsapp_success == (env.bridge = "true")
             IN  [raised |-> FALSE,
                  w |-> IF env.bridge = "raise" THEN Failed(w3, "bridge") ELSE w3,
                  resp |-> [session_id |-> sid, response |-> "PHONE_CONFIRMATION",
                            flow_completed |-> TRUE, ai_mode |-> TRUE,
                            phone_collected |-> TRUE,
                            whatsapp_sent |-> whatsapp_success,
                            phone_number |-> phone_clean]]

(* _handle_phone_collection, except that the phone number is also written   *)
(* to the session's LeadRecord through update_lead_data                     *)
_handle_phone_collection_updates_lead(w, sid, session_data, user_response, env) ==
    LET phone_clean == FilterDigits(user_response)
    IN  IF Len(phone_clean) < 10 \/ Len(phone_clean) > 11
        THEN [raised |-> FALSE,
              w |-> w,
              resp |-> [session_id |-> sid, question |-> "PHONE_REPROMPT",
                        flow_completed |-> TRUE, ai_mode |-> FALSE,
                        phone_collected |-> FALSE, collecting_phone |-> TRUE,
                        validation_error |-> TRUE]]
        ELSE LET phone_formatted == FormatPhoneGuided(phone_clean)
                 sd == Update(session_data, [phone_collected |-> TRUE,
                                             ai_mode |-> TRUE,
                                             phone_number |-> phone_clean,
                                             phone_formatted |-> phone_formatted,
                                             last_updated |-> w.now])
                 w1 == save_user_session(w, sid, sd, env)
                 lead_data == [phone_number |-> phone_clean,
                               phone_formatted |-> phone_formatted,
                               status |-> "phone_collected",
                               updated_at |-> w.now]
                 w2 == update_lead_data(w1, Get(sd, "lead_id", 0), lead_data, env)
                 responses == Get(sd, "responses", EmptyDict)
                 whatsapp_message ==
                     [user_name |-> Get(responses, "name", Cliente),
                      area |-> Get(responses, "area_of_law", NaoEspecificada),
                      situation |-> Take(Get(responses, "situation", NaoInformada), 100)]
                 w3 == [w2 EXCEPT !.tr.sent =
                            Append(@, [to |-> phone_formatted \o WhatsAppSuffix,
                                       text |-> whatsapp_message,
                                       result |-> env.bridge]),
                          !.tr.calls = Append(@, BridgeCall)]
                 whatsapp_success == (env.bridge = "true")
             IN  [raised |-> FALSE,
                  w |-> IF env.bridge = "raise" THEN Failed(w3, "bridge") ELSE w3,
                  resp |-> [session_id |-> sid, response |-> "PHONE_CONFIRMATION",
                            flow_completed |-> TRUE, ai_mode |-> TRUE,
                            phone_collected |-> TRUE,
                            whatsapp_sent |-> whatsapp_success,
                            phone_number |-> phone_clean]]

_handle_phone_collection(w, sid, session_data, user_response, env) ==
    LET phone_clean == FilterDigits(user_response)
    IN  IF Len(phone_clean) < 10 \/ Len(phone_clean) > 11
        THEN [raised |-> FALSE,
              w |-> w,
              resp |-> [session_id |-> sid, question |-> "PHONE_REPROMPT",
                        flow_completed |-> TRUE, ai_mode |-> FALSE,
                        phone_collected |-> FALSE, collecting_phone |-> TRUE,
                        validation_error |-> TRUE]]
        ELSE LET phone_formatted == FormatPhoneGuided(phone_clean)
                 sd == Update(session_data, [phone_collected |-> TRUE,
                                             ai_mode |-> TRUE,
                                             phone_number |-> phone_clean,
                                             phone_formatted |-> phone_formatted,
                                             last_updated |-> w.now])
                 w2 == save_user_session(w, sid, sd, env)
                 responses == Get(sd, "responses", EmptyDict)
                 whatsapp_message ==
                     [user_name |-> Get(responses, "name", Cliente),
                      area |-> Get(responses, "area_of_law", NaoEspecificada),
                      situation |-> Take(Get(responses, "situation", NaoInformada), 100)]
                 w3 == [w2 EXCEPT !.tr.sent =
                            Append(@, [to |-> phone_formatted \o WhatsAppSuffix,
                                       text |-> whatsapp_message,
                                       result |-> env.bridge]),
                          !.tr.calls = Append(@, BridgeCall)]
                 whatsapp_success == (env.bridge = "true")
             IN  [raised |-> FALSE,
                  w |-> IF env.bridge = "raise" THEN Failed(w3, "bridge") ELSE w3,
                  resp |-> [session_id |-> sid, response |-> "PHONE_CONFIRMATION",
                            flow_completed |-> TRUE, ai_mode |-> TRUE,
                            phone_collected |-> TRUE,
                            whatsapp_sent |-> whatsapp_success,
                            phone_number |-> phone_clean]]

(* The lead-in of the question returned for a rejected answer (line 157) *)
RedirectPrefix == "Por favor, responda à pergunta atual: "

(* GuidedStep, except that the answer is stored as it was typed *)
GuidedStep_stores_untrimmed(w, sid, session_data, user_response, env) ==
    LET f == get_flow(w, env)
        current_step == Get(session_data, "current_step", 1)
        current_step_data == FindStep(f.flow, current_step)
    IN  IF f.raised THEN [raised |-> TRUE, w |-> f.w, resp |-> EmptyDict]
        ELSE IF current_step_data = EmptyDict
        THEN _switch_to_ai_mode(f.w, sid, user_response, env)
        ELSE IF ~_is_response_relevant(user_response, current_step_data)
        THEN [raised |-> FALSE,
              w |-> f.w,
              resp |-> [session_id |-> sid,
                        question |-> RedirectPrefix \o current_step_data.question,
                        step_id |-> current_step_data.id,
                        is_final_step |-> FALSE, flow_completed |-> FALSE,
                        ai_mode |-> FALSE, redirect_message |-> TRUE]]
        ELSE IF "responses" \notin DOMAIN session_data
        THEN [raised |-> TRUE, w |-> f.w, resp |-> EmptyDict]    \* KeyError
        ELSE LET field_name == current_step_data.field
                 sd == Update([session_data EXCEPT !["responses"] =
                                   Update(@, [k \in {field_name} |-> user_response])],
                              [last_updated |-> w.now])
                 next_step == current_step + 1
                 next_step_data == FindStep(f.flow, next_step)
             IN  IF next_step_data # EmptyDict
                 THEN LET sd2 == Update(sd, [current_step |-> next_step])
                          w2 == save_user_session(f.w, sid, sd2, env)
                      IN  [raised |-> FALSE,
                           w |-> w2,
                           resp |-> [session_id |-> sid,
                                     question |-> next_step_data.question,
                                     step_id |-> next_step_data.id,
                                     is_final_step |-> (next_step = Len(f.flow.steps)),
                                     flow_completed |-> FALSE, ai_mode |-> FALSE,
                                     phone_collected |-> FALSE]]
                 ELSE _complete_flow(f.w, sid, sd, env)

(* GuidedStep, except that a rejected answer saves the session *)
GuidedStep_saves_on_rejection(w, sid, session_data, user_response, env) ==
    LET f == get_flow(w, env)
        current_step == Get(session_data, "current_step", 1)
        current_step_data == FindStep(f.flow, current_step)
    IN  IF f.raised THEN [raised |-> TRUE, w |-> f.w, resp |-> EmptyDict]
        ELSE IF current_step_data = EmptyDict
        THEN _switch_to_ai_mode(f.w, sid, user_response, env)
        ELSE IF ~_is_response_relevant(user_response, current_step_data)
        THEN [raised |-> FALSE,
              w |-> save_user_session(f.w, sid, session_data, env),
              resp |-> [session_id |-> sid,
                        question |-> RedirectPrefix \o current_step_data.question,
                        step_id |-> current_step_data.id,
                        is_final_step |-> FALSE, flow_completed |-> FALSE,
                        ai_mode |-> FALSE, redirect_message |-> TRUE]]
        ELSE IF "responses" \notin DOMAIN session_data
        THEN [raised |-> TRUE, w |-> f.w, resp |-> EmptyDict]    \* KeyError
        ELSE LET field_name == current_step_data.field
                 sd == Update([session_data EXCEPT !["responses"] =
                                   Update(@, [k \in {field_name} |-> Strip(user_response)])],
                              [last_updated |-> w.now])
                 next_step == current_step + 1
                 next_step_data == FindStep(f.flow, next_step)
             IN  IF next_step_data # EmptyDict
                 THEN LET sd2 == Update(sd, [current_step |-> next_step])
                          w2 == save_user_session(f.w, sid, sd2, env)
                      IN  [raised |-> FALSE,
                           w |-> w2,
                           resp |-> [session_id |-> sid,
                                     question |-> next_step_data.question,
                                     step_id |-> next_step_data.id,
                                     is_final_step |-> (next_step = Len(f.flow.steps)),
                                     flow_completed |-> FALSE, ai_mode |-> FALSE,
                                     phone_collected |-> FALSE]]
                 ELSE _complete_flow(f.w, sid, sd, env)

(* The guided branch of process_response (lines 140-198); raising is the outer except's concern *)
GuidedStep(w, sid, session_data, user_response, env) ==
    LET f == get_flow(w, env)
        current_step == Get(session_data, "current_step", 1)
        current_step_data == FindStep(f.flow, current_step)
    IN  IF f.raised THEN [raised |-> TRUE, w |-> f.w, resp |-> EmptyDict]
        ELSE IF current_step_data = EmptyDict
        THEN _switch_to_ai_mode(f.w, sid, user_response, env)
        ELSE IF ~_is_response_relevant(user_response, current_step_data)
        THEN [raised |-> FALSE,
              w |-> f.w,
              resp |-> [session_id |-> sid,
                        question |-> RedirectPrefix \o current_step_data.question,
                        step_id |-> current_step_data.id,
                        is_final_step |-> FALSE, flow_completed |-> FALSE,
                        ai_mode |-> FALSE, redirect_message |-> TRUE]]
        ELSE IF "responses" \notin DOMAIN session_data
        THEN [raised |-> TRUE, w |-> f.w, resp |-> EmptyDict]    \* KeyError
        ELSE LET field_name == current_step_data.field
                 sd == Update([session_data EXCEPT !["responses"] =
                                   Update(@, [k \in {field_name} |-> Strip(user_response)])],
                              [last_updated |-> w.now])
                 next_step == current_step + 1
                 next_step_data == FindStep(f.flow, next_step)
             IN  IF next_step_data # EmptyDict
                 THEN LET sd2 == Update(sd, [current_step |-> next_step])
                          w2 == save_user_session(f.w, sid, sd2, env)
                      IN  [raised |-> FALSE,
                           w |-> w2,
                           resp |-> [session_id |-> sid,
                                     question |-> next_step_data.question,
                                     step_id |-> next_step_data.id,
                                     is_final_step |-> (next_step = Len(f.flow.steps)),
                                     flow_completed |-> FALSE, ai_mode |-> FALSE,
                                     phone_collected |-> FALSE]]
                 ELSE _complete_flow(f.w, sid, sd, env)

(* process_response for a session that was found (lines 125-198) *)
ExistingSession(w, sid, session_data, user_response, env) ==
    IF /\ Get(session_data, "flow_completed", FALSE)
       /\ ~Get(session_data, "phone_collected", FALSE)
    THEN _handle_phone_collection(w, sid, session_data, user_response, env)
    ELSE IF Get(session_data, "ai_mode", FALSE)
    THEN LET a == process_chat_message(w, user_response, sid, env)
         IN  [raised |-> FALSE,
              w |-> a.w,
              resp |-> [session_id |-> sid, response |-> a.text,
                        ai_mode |-> TRUE, flow_completed |-> TRUE,
                        phone_collected |->
                            Get(session_data, "phone_collected", FALSE)]]
    ELSE GuidedStep(w, sid, session_data, user_response, env)

process_response(w, sid, user_response, env) ==
    LET g == get_user_session(w, sid, env)
        session_data == g.data
        r == IF session_data = NoSession
             THEN start_conversation(g.w, sid, env)
             ELSE ExistingSession(g.w, sid, session_data, user_response, env)
    IN  IF r.raised THEN _switch_to_ai_mode(r.w, sid, user_response, env) ELSE r

get_conversation_status(w, sid, env) ==
    LET g == get_user_session(w, sid, env)
        session_data == g.data
    IN  IF session_data = NoSession
        THEN [raised |-> FALSE, w |-> g.w, resp |-> [exists |-> FALSE]]
        ELSE LET f == get_flow(g.w, env)
             IN  IF f.raised
                 THEN [raised |-> FALSE, w |-> f.w,
                       resp |-> [exists |-> FALSE, error |-> "flow"]]
                 ELSE [raised |-> FALSE,
                       w |-> f.w,
                       resp |-> [exists |-> TRUE,
                                 session_id |-> sid,
                                 current_step |-> Get(session_data, "current_step", 1),
                                 total_steps |-> Len(f.flow.steps),
                                 flow_completed |-> Get(session_data, "flow_completed", FALSE),
                                 ai_mode |-> Get(session_data, "ai_mode", FALSE),
                                 phone_collected |-> Get(session_data, "phone_collected", FALSE),
                                 responses_collected |->
                                     Cardinality(DOMAIN Get(session_data, "responses", EmptyDict)),
                                 started_at |-> Get(session_data, "started_at", -1),
                                 last_updated |-> Get(session_data, "last_updated", -1)]]

-----------------------------------------------------------------------------
(* orchestration_service.py: IntelligentOrchestrator *)

(* orchestration_service.py: the texts of the extraction heuristics *)
name_stop_words ==
    <<<<"d","i","r","e","i","t","o">>,
      <<"a","d","v","o","g","a","d","o">>,
      <<"p","r","o","c","e","s","s","o">>,
      <<"p","r","o","b","l","e","m","a">>,
      <<"s","i","t","u","a","ç","ã","o">>,
      <<"p","r","e","c","i","s","o">>,
      <<"q","u","e","r","o">>>>

DireitoPenal == <<"D","i","r","e","i","t","o"," ","P","e","n","a","l">>
DireitoCivil == <<"D","i","r","e","i","t","o"," ","C","i","v","i","l">>
DireitoTrabalhista == <<"D","i","r","e","i","t","o"," ","T","r","a","b","a","l","h","i","s","t","a">>
DireitoDeFamilia == <<"D","i","r","e","i","t","o"," ","d","e"," ","F","a","m","í","l","i","a">>
DireitoEmpresarial == <<"D","i","r","e","i","t","o"," ","E","m","p","r","e","s","a","r","i","a","l">>

(* keyword, label: in the order the dictionary is written *)
legal_areas ==
    <<<<<<"p","e","n","a","l">>, DireitoPenal>>,
      <<<<"c","r","i","m","i","n","a","l">>, DireitoPenal>>,
      <<<<"c","i","v","i","l">>, DireitoCivil>>,
      <<<<"t","r","a","b","a","l","h","i","s","t","a">>, DireitoTrabalhista>>,
      <<<<"t","r","a","b","a","l","h","o">>, DireitoTrabalhista>>,
      <<<<"f","a","m","í","l","i","a">>, DireitoDeFamilia>>,
      <<<<"d","i","v","ó","r","c","i","o">>, DireitoDeFamilia>>,
      <<<<"e","m","p","r","e","s","a","r","i","a","l">>, DireitoEmpresarial>>,
      <<<<"e","m","p","r","e","s","a">>, DireitoEmpresarial>>>>

situation_indicators ==
    <<<<"p","r","o","b","l","e","m","a">>,
      <<"s","i","t","u","a","ç","ã","o">>,
      <<"p","r","e","c","i","s","o">>,
      <<"a","c","o","n","t","e","c","e","u">>,
      <<"e","s","t","o","u">>,
      <<"t","e","n","h","o">>,
      <<"s","o","f","r","i">>,
      <<"f","u","i">>,
      <<"r","e","c","e","b","i">>,
      <<"p","r","o","c","e","s","s","o">>>>

consent_indicators ==
    <<<<"s","i","m">>,
      <<"q","u","e","r","o">>,
      <<"a","c","e","i","t","o">>,
      <<"c","o","n","c","o","r","d","o">>,
      <<"p","o","d","e">>,
      <<"o","k">>,
      <<"c","l","a","r","o">>,
      <<"s","i","m"," ","p","o","r"," ","f","a","v","o","r">>,
      <<"p","o","d","e"," ","s","e","r">>,
      <<"t","u","d","o"," ","b","e","m">>>>

(* Python's None where a text is expected *)
None == <<"None">>

(* dict.get(k) used as a condition: a text that is present and not empty, a flag that is present and set *)
Truthy(d, k) == k \in DOMAIN d /\ d[k] # <<>>

TruthyFlag(d, k) == k \in DOMAIN d /\ d[k]

_get_or_create_session(w, sid, platform, phone_number, env) ==
    LET g == get_user_session(w, sid, env)
    IN  IF g.data # NoSession THEN [w |-> g.w, session_data |-> g.data]
        ELSE LET session_data == [session_id |-> sid,
                                  platform |-> platform,
                                  phone_number |-> phone_number,
                                  created_at |-> w.now,
                                  last_updated |-> w.now,
                                  lead_data |-> EmptyDict,
                                  message_count |-> 0,
                                  lead_saved |-> FALSE]
             IN  [w |-> save_user_session(g.w, sid, session_data, env),
                  session_data |-> session_data]

ExtractName(message, current_lead_data) ==
    LET words == Split(message)
    IN  IF /\ ~Truthy(current_lead_data, "name")
           /\ Len(words) >= 2
           /\ ~AnyIn(name_stop_words, Lower(message))
           /\ \A i \in 1..2 : IsAlpha(words[i]) \/ IsAlpha(RemoveChar(words[i], "."))
        THEN [name |-> Title(JoinWords(SubSeq(words, 1, 2)))]
        ELSE EmptyDict

(* ExtractArea, except that the last matching keyword of the dictionary wins *)
ExtractArea_last_match(message, current_lead_data) ==
    LET message_lower == Lower(message)
        hits == {i \in 1..Len(legal_areas) : Contains(message_lower, legal_areas[i][1])}
    IN  IF ~Truthy(current_lead_data, "area_of_law") /\ hits # {}
        THEN [area_of_law |-> legal_areas[CHOOSE i \in hits : \A j \in hits : i >= j][2]]
        ELSE EmptyDict

ExtractArea(message, current_lead_data) ==
    LET message_lower == Lower(message)
        hits == {i \in 1..Len(legal_areas) : Contains(message_lower, legal_areas[i][1])}
    IN  IF ~Truthy(current_lead_data, "area_of_law") /\ hits # {}
        THEN [area_of_law |-> legal_areas[CHOOSE i \in hits : \A j \in hits : i <= j][2]]
        ELSE EmptyDict

ExtractSituation(message, current_lead_data) ==
    IF /\ ~Truthy(current_lead_data, "situation")
       /\ Len(message) > 20
       /\ AnyIn(situation_indicators, Lower(message))
    THEN [situation |-> Take(message, 200)]
    ELSE EmptyDict

ExtractConsent(message, current_lead_data) ==
    IF ~TruthyFlag(current_lead_data, "consent") /\ AnyIn(consent_indicators, Lower(message))
    THEN [consent |-> TRUE]
    ELSE EmptyDict

_extract_lead_info(message, session_data) ==
    LET current_lead_data == Get(session_data, "lead_data", EmptyDict)
    IN  Update(Update(ExtractName(message, current_lead_data),
                      ExtractArea(message, current_lead_data)),
               Update(ExtractSituation(message, current_lead_data),
                      ExtractConsent(message, current_lead_data)))

_prepare_ai_context(w, session_data, platform) ==
    LET lead_data == Get(session_data, "lead_data", EmptyDict)
        base == [platform |-> platform,
                 message_count |-> Get(session_data, "message_count", 0),
                 session_age_minutes |->
                     SecondsOf(w.now - Get(session_data, "created_at", w.now)) \div 60]
    IN  Update(base,
               [k \in {f \in {"name", "area_of_law", "situation"} : Truthy(lead_data, f)} |->
                   IF k = "situation" THEN Take(lead_data[k], 100) ELSE lead_data[k]])

(* _should_save_lead, except that the lead_saved flag is not consulted *)
_should_save_lead_ignores_saved(session_data) ==
    LET lead_data == Get(session_data, "lead_data", EmptyDict)
        has_name == Truthy(lead_data, "name")
        has_other_info == \/ Truthy(lead_data, "area_of_law")
                          \/ Truthy(lead_data, "situation")
                          \/ TruthyFlag(lead_data, "consent")
    IN  has_name /\ has_other_info

_should_save_lead(session_data) ==
    LET lead_data == Get(session_data, "lead_data", EmptyDict)
        has_name == Truthy(lead_data, "name")
        has_other_info == \/ Truthy(lead_data, "area_of_law")
                          \/ Truthy(lead_data, "situation")
                          \/ TruthyFlag(lead_data, "consent")
    IN  has_name /\ has_other_info /\ ~Get(session_data, "lead_saved", FALSE)

(* _save_lead_if_ready: every exception is logged and swallowed; returns the world and the *)
(* caller's session_data as the call leaves it                                             *)
_save_lead_if_ready(w, session_data, env) ==
    LET lead_data == Get(session_data, "lead_data", EmptyDict)
    IN  IF "session_id" \notin DOMAIN session_data
        THEN [w |-> w, session_data |-> session_data]    \* KeyError, swallowed
        ELSE LET lead_record ==
                     [name |-> Get(lead_data, "name", Unknown),
                      area_of_law |-> Get(lead_data, "area_of_law", NotSpecified),
                      situation |-> Get(lead_data, "situation", NotProvided),
                      consent |-> Get(lead_data, "consent", FALSE),
                      phone_number |-> Get(session_data, "phone_number", <<>>),
                      platform |-> Get(session_data, "platform", "unknown"),
                      session_id |-> session_data.session_id,
                      message_count |-> Get(session_data, "message_count", 0),
                      created_at |-> Get(session_data, "created_at", w.now),
                      status |-> "ai_collected"]
                 l == save_lead_data(w, lead_record, env)
             IN  IF l.raised THEN [w |-> l.w, session_data |-> session_data]
                 ELSE LET sd == Update(session_data, [lead_saved |-> TRUE, lead_id |-> l.id])
                      IN  [w |-> save_user_session(l.w, session_data.session_id, sd, env),
                           session_data |-> sd]

ErrorResponse(sid, platform) ==
    [response_type |-> "error", platform |-> platform, session_id |-> sid,
     response |-> "ERROR_TEXT", error |-> "KeyError"]

(* process_message up to the generation call (lines 47-68): the session is loaded or created, *)
(* the extraction is merged and written, the context is built                                *)
process_message_begin(w, message, sid, phone_number, platform, env) ==
    LET s == _get_or_create_session(w, sid, platform, phone_number, env)
        extracted_info == _extract_lead_info(message, s.session_data)
    IN  IF extracted_info # EmptyDict /\ "lead_data" \notin DOMAIN s.session_data
        THEN [failed |-> TRUE, w |-> s.w, session_data |-> s.session_data,
              context |-> EmptyDict]                      \* KeyError: 'lead_data'
        ELSE LET sd == IF extracted_info = EmptyDict THEN s.session_data
                       ELSE [s.session_data EXCEPT !["lead_data"] = Update(@, extracted_info)]
                 w2 == IF extracted_info = EmptyDict THEN s.w
                       ELSE save_user_session(s.w, sid, sd, env)
             IN  [failed |-> FALSE, w |-> w2, session_data |-> sd,
                  context |-> _prepare_ai_context(w, sd, platform)]

(* process_message after the generation call returned (lines 70-89) *)
process_message_finish(w, message, sid, platform, session_data, ai_response, env) ==
    LET l == IF _should_save_lead(session_data)
             THEN _save_lead_if_ready(w, session_data, env)
             ELSE [w |-> w, session_data |-> session_data]
        sd == Update(l.session_data,
                     [last_message |-> message,
                      last_response |-> ai_response,
                      last_updated |-> w.now,
                      message_count |-> Get(l.session_data, "message_count", 0) + 1])
    IN  [raised |-> FALSE,
         w |-> save_user_session(l.w, sid, sd, env),
         resp |-> [response_type |-> "ai_intelligent", platform |-> platform,
                   session_id |-> sid, response |-> ai_response, ai_mode |-> TRUE,
                   lead_data |-> Get(sd, "lead_data", EmptyDict),
                   message_count |-> Get(sd, "message_count", 1)]]

process_message(w, message, sid, phone_number, platform, env) ==
    LET b == process_message_begin(w, message, sid, phone_number, platform, env)
    IN  IF b.failed
        THEN [raised |-> FALSE, w |-> b.w, resp |-> ErrorResponse(sid, platform)]
        ELSE LET a == generate_response(b.w, message, sid, b.context, env)
             IN  process_message_finish(a.w, message, sid, platform, b.session_data,
                                        a.text, env)

(* FormatPhoneSubmission, except that no 9 is inserted into a 10-digit number *)
FormatPhoneSubmission_no_nine(phone_clean) ==
    IF Len(phone_clean) = 10
    THEN <<"5","5">> \o phone_clean
    ELSE IF Len(phone_clean) = 11
    THEN <<"5","5">> \o phone_clean
    ELSE phone_clean

(* The number formatted for the messaging bridge in                         *)
(* handle_phone_number_submission (lines 268-274): digits of any other      *)
(* count are passed on as they are                                          *)
FormatPhoneSubmission(phone_clean) ==
    IF Len(phone_clean) = 10
    THEN <<"5","5">> \o SubSeq(phone_clean, 1, 2) \o <<"9">>
             \o SubSeq(phone_clean, 3, Len(phone_clean))
    ELSE IF Len(phone_clean) = 11
    THEN <<"5","5">> \o phone_clean
    ELSE phone_clean

(* handle_phone_number_submission, except that only a raising bridge counts as failure *)
handle_phone_number_submission_trusts_bridge(w, phone_number, sid, env) ==
    LET g == get_user_session(w, sid, env)
        session_data == g.data     \* None becomes {}: NoSession is the empty dict
        phone_clean == FilterDigits(phone_number)
        phone_formatted == FormatPhoneSubmission(phone_clean)
        sd == Update(session_data, [phone_number |-> phone_clean,
                                    phone_formatted |-> phone_formatted,
                                    phone_submitted |-> TRUE,
                                    platform_transition |-> "web_to_whatsapp"])
        w2 == save_user_session(g.w, sid, sd, env)
        lead_data == Get(sd, "lead_data", EmptyDict)
        whatsapp_message == [user_name |-> Get(lead_data, "name", Cliente)]
        w3 == [w2 EXCEPT !.tr.sent =
                   Append(@, [to |-> phone_formatted \o WhatsAppSuffix,
                              text |-> whatsapp_message,
                              result |-> env.bridge]),
                          !.tr.calls = Append(@, BridgeCall)]
        whatsapp_success == (env.bridge # "raise")
    IN  [raised |-> FALSE,
         w |-> IF env.bridge = "raise" THEN Failed(w3, "bridge") ELSE w3,
         resp |-> [response_type |-> "phone_submitted",
                   session_id |-> sid,
                   phone_number |-> phone_clean,
                   whatsapp_sent |-> whatsapp_success,
                   message |-> IF whatsapp_success THEN "PHONE_SUBMITTED_SENT"
                               ELSE "PHONE_SUBMITTED_REGISTERED"]]

(* handle_phone_number_submission (lines 253-324).  The store functions log *)
(* their failures and the bridge call has its own handler, so the outer     *)
(* handler is never entered for a text phone_number.                        *)
handle_phone_number_submission(w, phone_number, sid, env) ==
    LET g == get_user_session(w, sid, env)
        session_data == g.data     \* None becomes {}: NoSession is the empty dict
        phone_clean == FilterDigits(phone_number)
        phone_formatted == FormatPhoneSubmission(phone_clean)
        sd == Update(session_data, [phone_number |-> phone_clean,
                                    phone_formatted |-> phone_formatted,
                                    phone_submitted |-> TRUE,
                                    platform_transition |-> "web_to_whatsapp"])
        w2 == save_user_session(g.w, sid, sd, env)
        lead_data == Get(sd, "lead_data", EmptyDict)
        whatsapp_message == [user_name |-> Get(lead_data, "name", Cliente)]
        w3 == [w2 EXCEPT !.tr.sent =
                   Append(@, [to |-> phone_formatted \o WhatsAppSuffix,
                              text |-> whatsapp_message,
                              result |-> env.bridge]),
                          !.tr.calls = Append(@, BridgeCall)]
        whatsapp_success == (env.bridge = "true")
    IN  [raised |-> FALSE,
         w |-> IF env.bridge = "raise" THEN Failed(w3, "bridge") ELSE w3,
         resp |-> [response_type |-> "phone_submitted",
                   session_id |-> sid,
                   phone_number |-> phone_clean,
                   whatsapp_sent |-> whatsapp_success,
                   message |-> IF whatsapp_success THEN "PHONE_SUBMITTED_SENT"
                               ELSE "PHONE_SUBMITTED_REGISTERED"]]

-----------------------------------------------------------------------------
(* The state machine *)

Flows == {DefaultFlow, EditedFlow}

TickSteps == {301}

(* Outcomes of the collaborator calls of one call: session-store read and   *)
(* write, flow-store read, lead-store write, generation, messaging bridge.  *)
AllEnvs ==
    [sread : BOOLEAN, swrite : BOOLEAN, flow : BOOLEAN, lead : BOOLEAN,
     gen : BOOLEAN, bridge : {"true", "false", "raise"}]

Failures(env) ==
    {k \in {"sread", "swrite", "flow", "lead", "gen"} : ~env[k]}
        \cup (IF env.bridge = "true" THEN {} ELSE {"bridge"})

(* At most MaxFailures collaborators fail during one call. *)
Envs == {env \in AllEnvs : Cardinality(Failures(env)) <= MaxFailures}

OkEnv ==
    [sread |-> TRUE, swrite |-> TRUE, flow |-> TRUE, lead |-> TRUE,
     gen |-> TRUE, bridge |-> "true"]

EmptyTrace ==
    [gen |-> <<>>, ctx |-> <<>>, sent |-> <<>>, failed |-> {}, swrites |-> 0,
     gen_failed |-> FALSE, hist |-> <<>>, calls |-> <<>>]

World ==
    [store |-> store, leads |-> leads, doc |-> flow_doc, cache |-> flow_cache,
     ts |-> cache_timestamp, now |-> now, mem |-> conversation_memories,
     tr |-> EmptyTrace]

(* The concurrently scheduled process_message calls, and a call that has not begun. *)
Tasks == {1, 2}

IdleTurn ==
    [pc |-> "idle", sid |-> "", message |-> <<>>, env |-> OkEnv,
     session_data |-> EmptyDict, context |-> EmptyDict, resp |-> EmptyDict]

(* What `last` holds when the step was not a call of the program. *)
NoCall(what) ==
    [op |-> what, sid |-> "", msg |-> <<>>, raised |-> FALSE,
     resp |-> EmptyDict, tr |-> EmptyTrace]

Init ==
    /\ store = EmptyDict
    /\ leads = <<>>
    /\ flow_doc = NoFlow
    /\ flow_cache = NoFlow
    /\ cache_timestamp = 0
    /\ now = 0
    /\ last = NoCall("init")
    /\ turns = [t \in Tasks |-> IdleTurn]
    /\ conversation_memories = EmptyDict
    /\ ticks = 0

(* The turns a memory holds: a human and an ai message each *)
TurnsIn(messages) == Len(messages) \div 2

Commit(op, sid, msg, r) ==
    /\ Len(r.w.leads) <= MaxLeads
    /\ store' = r.w.store
    /\ leads' = r.w.leads
    /\ flow_doc' = r.w.doc
    /\ flow_cache' = r.w.cache
    /\ cache_timestamp' = r.w.ts
    /\ last' = [op |-> op, sid |-> sid, msg |-> msg, raised |-> r.raised,
                resp |-> r.resp, tr |-> r.w.tr]
    /\ conversation_memories' = r.w.mem
    /\ UNCHANGED <<now, turns, ticks>>

(* A call of an orchestrator operation; the memory of a session holds at most MaxRemembered turns *)
Returns(op, sid, msg, r) ==
    /\ \A s \in DOMAIN r.w.mem : TurnsIn(r.w.mem[s]) <= MaxRemembered
    /\ Commit(op, sid, msg, r)

StartConversation(sid, env) ==
    /\ env \in AllEnvs
    /\ Returns("start_conversation", sid, <<>>, start_conversation(World, sid, env))

ProcessResponse(sid, msg, env) ==
    /\ env \in AllEnvs
    /\ Returns("process_response", sid, msg, process_response(World, sid, msg, env))

GetConversationStatus(sid, env) ==
    /\ env \in AllEnvs
    /\ Returns("get_conversation_status", sid, <<>>, get_conversation_status(World, sid, env))

Tick ==
    /\ ticks < MaxTicks
    /\ \E d \in TickSteps : now' = now + d
    /\ ticks' = ticks + 1
    /\ last' = NoCall("tick")
    /\ UNCHANGED <<store, leads, flow_doc, flow_cache, cache_timestamp, turns,
                   conversation_memories>>

EditFlow ==
    /\ \E f \in Flows \ {flow_doc} : flow_doc' = f
    /\ last' = NoCall("edit_flow")
    /\ UNCHANGED <<store, leads, flow_cache, cache_timestamp, now, turns,
                   conversation_memories, ticks>>

(* The guided orchestrator with failing collaborators. *)
FailMessages == {MariaSilva, Phone11}

Next ==
    \/ \E sid \in SessionIds, env \in Envs : StartConversation(sid, env)
    \/ \E sid \in SessionIds, msg \in FailMessages, env \in Envs :
           ProcessResponse(sid, msg, env)
    \/ \E sid \in SessionIds, env \in Envs : GetConversationStatus(sid, env)

Spec == Init /\ [][Next]_vars

(* The guided orchestrator while the flow document is edited and the cache  *)
(* expires; the flow store may be unavailable.                              *)
FlowEnvs == {env \in AllEnvs : Failures(env) \subseteq {"flow"}}

NextFlow ==
    \/ \E sid \in SessionIds, env \in FlowEnvs : StartConversation(sid, env)
    \/ \E sid \in SessionIds, msg \in FailMessages, env \in FlowEnvs :
           ProcessResponse(sid, msg, env)
    \/ Tick
    \/ EditFlow

SpecFlow == Init /\ [][NextFlow]_vars

(* The guided orchestrator on the built-in flow with working collaborators. *)
NextScenario ==
    \/ \E sid \in SessionIds : sid \notin DOMAIN store /\ StartConversation(sid, OkEnv)
    \/ \E sid \in SessionIds, msg \in Messages : ProcessResponse(sid, msg, OkEnv)

SpecScenario == Init /\ [][NextScenario]_vars

(* Both handoff paths, guided phone collection and phone submission; the    *)
(* messaging bridge may report failure or raise.                            *)
SubmitPhone(sid, phone, env) ==
    /\ env \in AllEnvs
    /\ Returns("handle_phone_number_submission", sid, phone,
               handle_phone_number_submission(World, phone, sid, env))

HandoffMessages == {MariaPadded, FortyTwo, Phone5, Phone10, Phone11}

Phones == {Phone5, Phone10, PhonePunctuated}

HandoffEnvs == {env \in AllEnvs : Failures(env) \subseteq {"bridge"}}

NextHandoff ==
    \/ \E sid \in SessionIds : sid \notin DOMAIN store /\ StartConversation(sid, OkEnv)
    \/ \E sid \in SessionIds, msg \in HandoffMessages, env \in HandoffEnvs :
           ProcessResponse(sid, msg, env)
    \/ \E sid \in SessionIds, phone \in Phones, env \in HandoffEnvs :
           SubmitPhone(sid, phone, env)

SpecHandoff == Init /\ [][NextHandoff]_vars

(* _is_response_relevant as a function of its inputs: an answer text and the *)
(* step it answers.  The texts cover blank and one-character answers, the   *)
(* listed tokens in several spellings, numbers, names, area names and       *)
(* choices, and every text of at most MaxAnswerLen characters over a small  *)
(* alphabet.                                                                *)
RelevanceTexts ==
    { <<>>,
      <<"a">>,
      <<" ","a"," ">>,
      <<" "," ">>,
      <<"S","i","m">>,
      <<" ","O","K"," ">>,
      <<"N","Ã","O">>,
      <<"n","ã","o">>,
      <<"?","?","?">>,
      <<"o","i">>,
      <<"O","l","á">>,
      <<"h","e","l","l","o">>,
      <<"h","i">>,
      <<"t","c","h","a","u">>,
      <<"b","y","e">>,
      <<"o","b","r","i","g","a","d","o">>,
      <<"t","h","a","n","k","s">>,
      <<"t","á">>,
      <<"y","e","s">>,
      <<"n","o">>,
      <<"o","k"," ","o","k">>,
      <<"4","2">>,
      <<" ","4","2"," ">>,
      <<"4"," ","2">>,
      <<"1","1","9","9","9","9","9","9","9","9","9">>,
      <<"M","a","r","i","a"," ","S","i","l","v","a">>,
      <<"J","o">>,
      <<"J","0">>,
      <<"D","i","r","e","i","t","o"," ","C","i","v","i","l">>,
      <<" ","P","E","N","A","L"," ">>,
      <<"f","a","m","í","l","i","a">>,
      <<"F","A","M","Í","L","I","A">>,
      <<"f","a","m","i","l","i","a">>,
      <<"t","r","a","b","a","l","h","i","s","t","a">>,
      <<"c","r","i","m","i","n","a","l">>,
      <<"E","m","p","r","e","s","a","r","i","a","l">>,
      <<"t","r","i","b","u","t","á","r","i","o">>,
      <<"o","u","t","r","o">>,
      <<"o","p","ç","ã","o"," ","1">>,
      <<"1","2">>,
      <<"5","5">>,
      <<"o","p","ç","ã","o"," ","5">>,
      <<"5","?">>,
      <<"q","u","e","r","o"," ","o"," ","3">>,
      <<"s","i","m",","," ","c","i","v","i","l">>,
      <<"P","r","e","c","i","s","o"," ","d","e"," ","a","j","u","d","a">> }

AnswerAlphabet == {"a", "K", "o", "1", "5", " "}

ShortAnswers ==
    UNION {[1..n -> AnswerAlphabet] : n \in 0..MaxAnswerLen}

RelevanceSteps ==
    { [id |-> 1, question |-> "Q_name", field |-> "name"],
      [id |-> 2, question |-> "Q_area_of_law", field |-> "area_of_law"],
      [id |-> 3, question |-> "Q_situation", field |-> "situation"],
      [id |-> 4, question |-> "Q_wants_meeting", field |-> "wants_meeting"],
      [id |-> 5, question |-> "Q_other"] }

InitRelevance ==
    /\ store = EmptyDict
    /\ leads = <<>>
    /\ flow_doc = NoFlow
    /\ flow_cache = NoFlow
    /\ cache_timestamp = 0
    /\ now = 0
    /\ \E response \in RelevanceTexts \cup ShortAnswers, step_data \in RelevanceSteps :
           last = [op |-> "input", sid |-> "", msg |-> response, raised |-> FALSE,
                   resp |-> [step_data |-> step_data], tr |-> EmptyTrace]
    /\ turns = [t \in Tasks |-> IdleTurn]
    /\ conversation_memories = EmptyDict
    /\ ticks = 0

IsResponseRelevant ==
    /\ last.op = "input"
    /\ last' = [last EXCEPT
                   !.op = "_is_response_relevant",
                   !.resp = [step_data |-> last.resp.step_data,
                             relevant |-> _is_response_relevant(last.msg,
                                                                last.resp.step_data)]]
    /\ UNCHANGED <<store, leads, flow_doc, flow_cache, cache_timestamp, now, turns,
                   conversation_memories, ticks>>

NextRelevance == IsResponseRelevant

SpecRelevance == InitRelevance /\ [][NextRelevance]_vars

(* The phone formatting of both handoff handlers as a function of the text  *)
(* typed: numbers of two area codes, with and without the leading 9 of the  *)
(* subscriber number, plain and punctuated, and texts of other digit counts *)
AreaCodes == { <<"1","1">>, <<"2","1">> }

Subscribers ==
    { <<"9","9","9","9","9","9","9","9">>, <<"8","7","6","5","4","3","2","1">>,
      <<"1","2","3","4","5","6","7","8">>, <<"0","0","0","0","0","0","0","0">> }

Written(area, number) ==
    { area \o number,
      <<"(">> \o area \o <<")"," ">> \o number,
      area \o <<" ">> \o SubSeq(number, 1, Len(number) - 4) \o <<"-">>
           \o SubSeq(number, Len(number) - 3, Len(number)),
      <<"+","5","5"," ">> \o area \o number }

PhoneTexts ==
    UNION { Written(area, number) \cup Written(area, <<"9">> \o number) :
                area \in AreaCodes, number \in Subscribers }
        \cup {Phone5, MariaSilva, <<>>}

InitPhone ==
    /\ store = EmptyDict
    /\ leads = <<>>
    /\ flow_doc = NoFlow
    /\ flow_cache = NoFlow
    /\ cache_timestamp = 0
    /\ now = 0
    /\ \E phone \in PhoneTexts :
           last = [op |-> "input", sid |-> "", msg |-> phone, raised |-> FALSE,
                   resp |-> EmptyDict, tr |-> EmptyTrace]
    /\ turns = [t \in Tasks |-> IdleTurn]
    /\ conversation_memories = EmptyDict
    /\ ticks = 0

(* What each handler makes of the text: its digits, whether the guided      *)
(* handler's validation lets them pass, and the formatted number            *)
FormatPhone ==
    /\ last.op = "input"
    /\ LET phone_clean == FilterDigits(last.msg)
           valid == ~(Len(phone_clean) < 10 \/ Len(phone_clean) > 11)
       IN  last' = [last EXCEPT
                       !.op = "phone_formatted",
                       !.resp = [phone_clean |-> phone_clean,
                                 valid |-> valid,
                                 guided |-> IF valid THEN FormatPhoneGuided(phone_clean)
                                            ELSE <<>>,
                                 submission |-> FormatPhoneSubmission(phone_clean)]]
    /\ UNCHANGED <<store, leads, flow_doc, flow_cache, cache_timestamp, now, turns,
                   conversation_memories, ticks>>

NextPhone == FormatPhone

SpecPhone == InitPhone /\ [][NextPhone]_vars

(* The AI-first orchestrator: process_message turns with failing            *)
(* collaborators.  A stored session counts at most MaxMessages messages.    *)
ProcessMessage(sid, message, env) ==
    /\ env \in AllEnvs
    /\ \E r \in {process_message(World, message, sid, None, "web", env)} :
           /\ sid \in DOMAIN r.w.store =>
                  Get(r.w.store[sid], "message_count", 0) <= MaxMessages
           /\ Returns("process_message", sid, message, r)

AIMessages == {MariaSilva, AnaSouza, Preciso, Sim}

(* The collaborators process_message calls: session store, lead store, generation *)
AIEnvs == {env \in Envs : Failures(env) \subseteq {"sread", "swrite", "lead", "gen"}}

NextAI ==
    \E sid \in SessionIds, message \in AIMessages, env \in AIEnvs :
        ProcessMessage(sid, message, env)

SpecAI == Init /\ [][NextAI]_vars

(* The operations that answer an internal error with an error result: a    *)
(* phone submission creates a session without lead_data, a process_message  *)
(* turn then fails on it; get_conversation_status fails with the flow store. *)
ErrorMessages == {MariaSilva, Sim, FortyTwo}

ErrorEnvs == {env \in AllEnvs : Failures(env) \subseteq {"flow"}}

NextErrors ==
    \/ \E sid \in SessionIds, phone \in Phones : SubmitPhone(sid, phone, OkEnv)
    \/ \E sid \in SessionIds, message \in ErrorMessages : ProcessMessage(sid, message, OkEnv)
    \/ \E sid \in SessionIds, env \in ErrorEnvs : GetConversationStatus(sid, env)

SpecErrors == Init /\ [][NextErrors]_vars

(* Turns of both strategies on one session.  One collaborator at a time     *)
(* fails: the session-store write, the flow store, the lead store, the     *)
(* generation, the messaging bridge.                                       *)
TurnMessages == {MariaSilva, Phone11}

TurnAIMessages == {Sim}

TurnEnvs ==
    {env \in Envs : Failures(env) \subseteq {"swrite", "flow", "lead", "gen", "bridge"}}

NextTurns ==
    \/ \E sid \in SessionIds : sid \notin DOMAIN store /\ StartConversation(sid, OkEnv)
    \/ \E sid \in SessionIds, msg \in TurnMessages, env \in TurnEnvs :
           ProcessResponse(sid, msg, env)
    \/ \E sid \in SessionIds, message \in TurnAIMessages, env \in TurnEnvs :
           ProcessMessage(sid, message, env)

SpecTurns == Init /\ [][NextTurns]_vars

(* The flow cache over time: get_flow calls while the clock advances by     *)
(* less than the TTL, by more than the TTL and by a whole day, and the flow *)
(* document is edited.                                                      *)
GetFlow(env) ==
    /\ env \in AllEnvs
    /\ LET r == get_flow(World, env)
       IN  Returns("get_flow", "", <<>>,
                   [raised |-> r.raised, w |-> r.w, resp |-> [flow |-> r.flow]])

AdvanceSteps == {100, 301, SecondsPerDay}

Advance ==
    /\ ticks < MaxAdvances
    /\ \E d \in AdvanceSteps : now' = now + d
    /\ ticks' = ticks + 1
    /\ last' = NoCall("tick")
    /\ UNCHANGED <<store, leads, flow_doc, flow_cache, cache_timestamp, turns,
                   conversation_memories>>

NextCache ==
    \/ \E env \in ErrorEnvs : GetFlow(env)
    \/ Advance
    \/ EditFlow

SpecCache == Init /\ [][NextCache]_vars

(* The area_of_law extraction of _extract_lead_info as a function of the    *)
(* message, on a session with nothing collected.  The messages hold no      *)
(* keyword, one keyword, or two keywords in either order, in lower case and *)
(* in capitals.                                                             *)
AreaKeywords == {legal_areas[i][1] : i \in 1..Len(legal_areas)}

AreaTexts ==
    AreaKeywords
        \cup {a \o <<" ">> \o b : a \in AreaKeywords, b \in AreaKeywords}
        \cup { <<>>, MariaSilva, Sim, CivilPenal,
               <<"C","I","V","I","L">>,
               <<"D","i","v","ó","r","c","i","o">>,
               <<"F","A","M","Í","L","I","A">>,
               <<"f","a","m","i","l","i","a">>,
               <<"t","r","a","b","a","l","h","a","r">>,
               <<"p","e","n","a">> }

InitArea ==
    /\ store = EmptyDict
    /\ leads = <<>>
    /\ flow_doc = NoFlow
    /\ flow_cache = NoFlow
    /\ cache_timestamp = 0
    /\ now = 0
    /\ \E message \in AreaTexts :
           last = [op |-> "input", sid |-> "", msg |-> message, raised |-> FALSE,
                   resp |-> EmptyDict, tr |-> EmptyTrace]
    /\ turns = [t \in Tasks |-> IdleTurn]
    /\ conversation_memories = EmptyDict
    /\ ticks = 0

ExtractLeadInfo ==
    /\ last.op = "input"
    /\ last' = [last EXCEPT
                   !.op = "_extract_lead_info",
                   !.resp = _extract_lead_info(last.msg, [lead_data |-> EmptyDict])]
    /\ UNCHANGED <<store, leads, flow_doc, flow_cache, cache_timestamp, now, turns,
                   conversation_memories, ticks>>

NextArea == ExtractLeadInfo

SpecArea == InitArea /\ [][NextArea]_vars

(* process_message turns on a session that grows older: the clock advances  *)
(* by minutes and by a whole day between the turns.                        *)
NextAge ==
    \/ \E sid \in SessionIds, message \in TurnMessages : ProcessMessage(sid, message, OkEnv)
    \/ Advance

SpecAge == Init /\ [][NextAge]_vars

(* The generation service on its own: generate_response calls for two      *)
(* sessions, the generation call working or failing, until a call would     *)
(* pass a history of more than MaxHistory turns.                            *)
MemorySessionIds == {"s1", "s2"}

GenEnvs == {env \in AllEnvs : Failures(env) \subseteq {"gen"}}

GenerateResponse(sid, message, env) ==
    /\ env \in AllEnvs
    /\ TurnsIn(_get_session_history(conversation_memories, sid)) <= MaxHistory
    /\ LET r == generate_response(World, message, sid, EmptyDict, env)
       IN  Commit("generate_response", sid, message,
                  [raised |-> FALSE, w |-> r.w, resp |-> [response |-> r.text]])

ClearSessionMemory(sid) ==
    LET w == clear_session_memory(World, sid)
    IN  /\ sid \in DOMAIN conversation_memories
        /\ Commit("clear_session_memory", sid, <<>>,
                  [raised |-> FALSE, w |-> w, resp |-> EmptyDict])

NextMemory ==
    \/ \E sid \in MemorySessionIds, env \in GenEnvs : GenerateResponse(sid, Sim, env)
    \/ \E sid \in MemorySessionIds : ClearSessionMemory(sid)

SpecMemory == Init /\ [][NextMemory]_vars

(* process_message turns of two sessions in any interleaving; the          *)
(* generation may fail during a turn.                                       *)
SessionMessages == {MariaSilva, Sim}

NextSessions ==
    \E sid \in MemorySessionIds, message \in SessionMessages, env \in GenEnvs :
        ProcessMessage(sid, message, env)

SpecSessions == Init /\ [][NextSessions]_vars

(* process_message calls scheduled on one event loop.  A call runs without  *)
(* interruption up to its generation call (the store functions never        *)
(* suspend), suspends there, and resumes when the generation call returns;  *)
(* other calls run in between.  The collaborators work.                     *)
BeginTurn(t, sid, message, env) ==
    /\ turns[t].pc = "idle"
    /\ LET b == process_message_begin(World, message, sid, None, "web", env)
       IN  /\ store' = b.w.store
           /\ turns' = [turns EXCEPT ![t] =
                  [pc |-> IF b.failed THEN "done" ELSE "awaiting",
                   sid |-> sid, message |-> message, env |-> env,
                   session_data |-> b.session_data, context |-> b.context,
                   resp |-> IF b.failed THEN ErrorResponse(sid, "web") ELSE EmptyDict]]
    /\ last' = NoCall("begin")
    /\ UNCHANGED <<leads, flow_doc, flow_cache, cache_timestamp, now,
                   conversation_memories, ticks>>

ResumeTurn(t) ==
    /\ turns[t].pc = "awaiting"
    /\ LET c == turns[t]
           a == generate_response(World, c.message, c.sid, c.context, c.env)
           f == process_message_finish(a.w, c.message, c.sid, "web", c.session_data,
                                       a.text, c.env)
       IN  /\ store' = f.w.store
           /\ leads' = f.w.leads
           /\ conversation_memories' = f.w.mem
           /\ turns' = [turns EXCEPT ![t] = [c EXCEPT !.pc = "done", !.resp = f.resp]]
    /\ last' = NoCall("resume")
    /\ UNCHANGED <<flow_doc, flow_cache, cache_timestamp, now, ticks>>

NextConc ==
    \/ \E t \in Tasks, sid \in SessionIds, message \in Messages :
           BeginTurn(t, sid, message, OkEnv)
    \/ \E t \in Tasks : ResumeTurn(t)

SpecConc == Init /\ [][NextConc]_vars

-----------------------------------------------------------------------------
(* Modes of a stored session *)

Flag(d, k) == Get(d, k, FALSE)

(* GUIDED = 0, PHONE_COLLECTION = 1, AI = 2 *)
ModeRank(d) ==
    IF Flag(d, "ai_mode") THEN 2
    ELSE IF Flag(d, "flow_completed") /\ ~Flag(d, "phone_collected") THEN 1
    ELSE 0

LeadsOf(sid) == {i \in 1..Len(leads) : leads[i].session_id = sid}

-----------------------------------------------------------------------------
(* C1: the mode of a stored session never moves backwards in the order      *)
(* GUIDED < PHONE_COLLECTION < AI, whatever operation runs and whichever     *)
(* collaborator call fails.                                                  *)
C1_ModeNeverMovesBack ==
    [][\A sid \in DOMAIN store :
          /\ sid \in DOMAIN store'
          /\ ModeRank(store'[sid]) >= ModeRank(store[sid])]_vars

(* C2: the lead store never holds more than one LeadRecord of a session.    *)
C2_AtMostOneLeadPerSession ==
    \A sid \in SessionIds : Cardinality(LeadsOf(sid)) <= 1

-----------------------------------------------------------------------------
(* Turns as steps: the unprimed variables are the state before the call,    *)
(* last' names the call and what it returned.                               *)

PersistenceFailures == {"sread", "swrite", "flow", "lead"}

ForcedAI(d) ==
    Flag(d, "ai_mode") /\ Flag(d, "flow_completed") /\ Flag(d, "phone_collected")

(* process_response on a stored session that is in GUIDED mode *)
GuidedTurn(sid) ==
    /\ last'.op = "process_response"
    /\ last'.sid = sid
    /\ sid \in DOMAIN store
    /\ ModeRank(store[sid]) = 0

FreshSession(sid, t) ==
    [session_id |-> sid, current_step |-> 1, responses |-> EmptyDict,
     flow_completed |-> FALSE, ai_mode |-> FALSE, phone_collected |-> FALSE,
     started_at |-> t, last_updated |-> t, created_at |-> t]

(* C6: any persistence failure (flow-store read, session-store read or      *)
(* write, lead-store write) during a guided process_response turn leaves    *)
(* the stored session forced to AI mode and forwards the turn's message to  *)
(* the generation service.                                                  *)
C6_AnyFailureFallsBack ==
    [][\A sid \in SessionIds :
          (GuidedTurn(sid) /\ last'.tr.failed \cap PersistenceFailures # {})
              => /\ sid \in DOMAIN store'
                 /\ ForcedAI(store'[sid])
                 /\ last'.tr.gen = <<last'.msg>>]_vars

-----------------------------------------------------------------------------
(* The answer of the turn is accepted at the session's step and no step     *)
(* with the next id exists: the case of C8.                                 *)
LastStepAccepted(sid) ==
    /\ GuidedTurn(sid)
    /\ "responses" \in DOMAIN store[sid]
    /\ flow_cache' # NoFlow
    /\ LET cur == Get(store[sid], "current_step", 1)
       IN  /\ FindStep(flow_cache', cur) # EmptyDict
           /\ _is_response_relevant(last'.msg, FindStep(flow_cache', cur))
           /\ FindStep(flow_cache', cur + 1) = EmptyDict

AnsweredResponses(sid) ==
    LET cur == Get(store[sid], "current_step", 1)
    IN  Update(store[sid].responses,
               [k \in {FindStep(flow_cache', cur).field} |-> Strip(last'.msg)])

(* C8: an accepted answer at a step without successor, with every           *)
(* collaborator call of the turn succeeding, persists one LeadRecord        *)
(* compiled from the responses, stores flow_completed with lead_id on the   *)
(* session in PHONE_COLLECTION mode and returns the phone-request prompt.    *)
C8_LastStepCompletesFlow ==
    [][\A sid \in SessionIds :
          (LastStepAccepted(sid) /\ last'.tr.failed = {}) =>
              LET answers == AnsweredResponses(sid)
                  lead == leads'[Len(leads')]
              IN  /\ Len(leads') = Len(leads) + 1
                  /\ SubSeq(leads', 1, Len(leads)) = leads
                  /\ lead.name = Get(answers, "name", Unknown)
                  /\ lead.area_of_law = Get(answers, "area_of_law", NotSpecified)
                  /\ lead.situation = Get(answers, "situation", NotProvided)
                  /\ lead.wants_meeting = Get(answers, "wants_meeting", NotSpecified)
                  /\ lead.session_id = sid
                  /\ store'[sid] = Update(store[sid],
                                          [responses |-> answers,
                                           flow_completed |-> TRUE,
                                           ai_mode |-> FALSE,
                                           phone_collected |-> FALSE,
                                           lead_id |-> Len(leads'),
                                           completed_at |-> now,
                                           last_updated |-> now])
                  /\ ModeRank(store'[sid]) = 1
                  /\ ~last'.raised
                  /\ last'.resp.question = "PHONE_PROMPT"
                  /\ last'.resp.flow_completed
                  /\ ~last'.resp.ai_mode
                  /\ ~last'.resp.phone_collected
                  /\ last'.resp.lead_id = Len(leads')]_vars

(* C8 witness: the turn that completed the flow *)
C8_Witness ==
    /\ last.op = "process_response"
    /\ last.tr.failed = {}
    /\ "question" \in DOMAIN last.resp
    /\ last.resp.question = "PHONE_PROMPT"
    /\ ModeRank(store[last.sid]) = 1
    /\ store[last.sid].lead_id = Len(leads)
    /\ DOMAIN store[last.sid].responses =
           {"name", "area_of_law", "situation", "wants_meeting"}

-----------------------------------------------------------------------------
(* C9: start_conversation on a session id without stored session, with the  *)
(* stores working and a flow that has a step with id 1, persists a session  *)
(* at step 1 with empty responses and the three flags false and returns the *)
(* question of the step whose id is 1, with step_id 1.                      *)
C9_StartCreatesStepOne ==
    [][\A sid \in SessionIds :
          (/\ last'.op = "start_conversation"
           /\ last'.sid = sid
           /\ sid \notin DOMAIN store
           /\ last'.tr.failed = {}
           /\ FindStep(flow_cache', 1) # EmptyDict) =>
              /\ ~last'.raised
              /\ sid \in DOMAIN store'
              /\ store'[sid] = FreshSession(sid, now)
              /\ last'.resp.question = FindStep(flow_cache', 1).question
              /\ last'.resp.step_id = 1
              /\ ~last'.resp.flow_completed
              /\ ~last'.resp.ai_mode
              /\ ~last'.resp.phone_collected]_vars

(* C9 witness: a session just started, nothing else done yet *)
C9_Witness ==
    /\ last.op = "start_conversation"
    /\ ~last.raised
    /\ last.tr.failed = {}
    /\ leads = <<>>
    /\ store[last.sid] = FreshSession(last.sid, now)
    /\ last.resp.step_id = 1
    /\ last.resp.question = "Q_name"

-----------------------------------------------------------------------------
(* The stored sessions after the two calls of `turns` have run one after the *)
(* other, `first` before `second`, from the initial state, each with the     *)
(* collaborator outcomes it had.                                             *)
InitialWorld ==
    [store |-> EmptyDict, leads |-> <<>>, doc |-> NoFlow, cache |-> NoFlow,
     ts |-> 0, now |-> 0, mem |-> EmptyDict, tr |-> EmptyTrace]

SerialStore(first, second) ==
    LET a == turns[first]
        b == turns[second]
        r1 == process_message(InitialWorld, a.message, a.sid, None, "web", a.env)
        r2 == process_message(r1.w, b.message, b.sid, None, "web", b.env)
    IN  r2.w.store

(* C3: when two concurrent turns of one session have both returned, the     *)
(* stored sessions are those of running the two turns one after the other   *)
(* in one of the two orders: no update of one turn is lost.                 *)
C3_ConcurrentTurnsSerialized ==
    (\A t \in Tasks : turns[t].pc = "done")
        => store \in {SerialStore(1, 2), SerialStore(2, 1)}

(* C4: every stored session's current_step is absent or the id of a step of *)
(* the currently cached flow.                                                *)
C4_CurrentStepInCachedFlow ==
    \A sid \in DOMAIN store :
        "current_step" \in DOMAIN store[sid] =>
            /\ flow_cache # NoFlow
            /\ FindStep(flow_cache, store[sid].current_step) # EmptyDict

(* C5: no operation raises to its caller. *)
C5_NoOperationRaises == ~last.raised

(* C7: on the built-in flow, "sim" answered at step 4 after "Maria Silva",   *)
(* "civil" and the situation text persists a lead and leaves the session in  *)
(* PHONE_COLLECTION with the phone prompt returned.                          *)
C7_ScriptedAnswersCompleteFlow ==
    [][\A sid \in SessionIds :
          (/\ GuidedTurn(sid)
           /\ last'.msg = Sim
           /\ Get(store[sid], "current_step", 1) = 4
           /\ Get(store[sid], "responses", EmptyDict) =
                  [name |-> MariaSilva, area_of_law |-> Civil, situation |-> Preciso]
           /\ flow_cache' = DefaultFlow)
              => /\ Len(leads') = Len(leads) + 1
                 /\ Flag(store'[sid], "flow_completed")
                 /\ ModeRank(store'[sid]) = 1
                 /\ Get(last'.resp, "question", "") = "PHONE_PROMPT"]_vars

(* C10: process_response on a session id without stored session has the     *)
(* outcome of start_conversation for that id: the same stored sessions, the  *)
(* same value returned or the same raising.                                  *)
C10_AbsentSessionBehavesAsStart ==
    [][\A sid \in SessionIds :
          (/\ last'.op = "process_response"
           /\ last'.sid = sid
           /\ sid \notin DOMAIN store)
              => \E env \in Envs :
                     LET r == start_conversation(World, sid, env)
                     IN  /\ last'.raised = r.raised
                         /\ last'.resp = r.resp
                         /\ store' = r.w.store]_vars

-----------------------------------------------------------------------------
(* Guided answers *)

(* The step a guided turn of the session answers, in the flow the turn used *)
AnsweredStep(sid) ==
    FindStep(flow_cache', Get(store[sid], "current_step", 1))

(* process_response on a stored GUIDED session rejected the answer *)
RejectedAnswer(sid) ==
    /\ GuidedTurn(sid)
    /\ "sread" \notin last'.tr.failed
    /\ "flow" \notin last'.tr.failed
    /\ AnsweredStep(sid) # EmptyDict
    /\ ~_is_response_relevant(last'.msg, AnsweredStep(sid))

(* C11: when process_response rejects a guided answer, the session store,   *)
(* the lead store and hence current_step, responses and every flag are      *)
(* unchanged, no session-store write is made or attempted, and the response *)
(* carries the question of the same step, behind the fixed lead-in, with    *)
(* the same step_id.                                                        *)
C11_RejectedAnswerChangesNothing ==
    [][\A sid \in SessionIds :
          RejectedAnswer(sid) =>
              /\ store' = store
              /\ leads' = leads
              /\ last'.tr.swrites = 0
              /\ "swrite" \notin last'.tr.failed
              /\ last'.tr.sent = <<>>
              /\ ~last'.raised
              /\ last'.resp.question = RedirectPrefix \o AnsweredStep(sid).question
              /\ last'.resp.step_id = AnsweredStep(sid).id
              /\ last'.resp.step_id = Get(store[sid], "current_step", 1)
              /\ ~last'.resp.flow_completed
              /\ ~last'.resp.ai_mode]_vars

(* C11 witness: "42" was answered at the name step and the name question    *)
(* came back                                                                *)
C11_Witness ==
    /\ last.op = "process_response"
    /\ last.msg = FortyTwo
    /\ "redirect_message" \in DOMAIN last.resp
    /\ last.resp.step_id = 1
    /\ last.resp.question = RedirectPrefix \o "Q_name"
    /\ store[last.sid].current_step = 1
    /\ store[last.sid].responses = EmptyDict

-----------------------------------------------------------------------------
(* The relevance heuristic *)

LowInformationTokens ==
    { <<"o","i">>, <<"o","l","á">>, <<"h","e","l","l","o">>, <<"h","i">>,
      <<"t","c","h","a","u">>, <<"b","y","e">>,
      <<"o","b","r","i","g","a","d","o">>, <<"t","h","a","n","k","s">>,
      <<"o","k">>, <<"t","á">>, <<"s","i","m">>, <<"n","ã","o">>,
      <<"y","e","s">>, <<"n","o">>, <<"?","?","?">> }

LegalKeywords ==
    { <<"p","e","n","a","l">>, <<"c","i","v","i","l">>,
      <<"t","r","a","b","a","l","h","i","s","t","a">>,
      <<"c","r","i","m","i","n","a","l">>, <<"f","a","m","í","l","i","a">>,
      <<"e","m","p","r","e","s","a","r","i","a","l">> }

ChoiceDigits == {"1", "2", "3", "4"}

Digits == {"0", "1", "2", "3", "4", "5", "6", "7", "8", "9"}

Occurs(word, text) ==
    \E i \in 1..Len(text) :
        /\ i + Len(word) - 1 <= Len(text)
        /\ SubSeq(text, i, i + Len(word) - 1) = word

(* The four grounds of rejection, for the trimmed, lower-cased text t *)
RejectionGrounds(t, step_data) ==
    \/ Len(t) < 2
    \/ t \in LowInformationTokens
    \/ /\ "field" \in DOMAIN step_data
       /\ step_data.field = "name"
       /\ \A i \in 1..Len(t) : t[i] \in Digits
    \/ /\ "field" \in DOMAIN step_data
       /\ step_data.field = "area_of_law"
       /\ \A word \in LegalKeywords : ~Occurs(word, t)
       /\ \A i \in 1..Len(t) : t[i] \notin ChoiceDigits

(* C12: _is_response_relevant rejects an answer exactly when the trimmed,   *)
(* lower-cased text has fewer than 2 characters, or is one of the listed    *)
(* low-information tokens, or answers the name step and is purely numeric,  *)
(* or answers the area_of_law step and contains none of the listed legal    *)
(* keywords and none of the listed choice digits 1 to 4; every other answer *)
(* is accepted.                                                             *)
C12_RejectsExactlyOnTheFourGrounds ==
    last.op = "_is_response_relevant" =>
        (~last.resp.relevant
            <=> RejectionGrounds(Lower(Strip(last.msg)), last.resp.step_data))

(* C12 witness: an area name written in capitals and padded with blanks was *)
(* accepted at the area_of_law step                                         *)
C12_Witness ==
    /\ last.op = "_is_response_relevant"
    /\ last.msg = <<" ","P","E","N","A","L"," ">>
    /\ Get(last.resp.step_data, "field", "") = "area_of_law"
    /\ last.resp.relevant


(* process_response on a stored GUIDED session accepted the answer at a     *)
(* step that has a successor; the session holds its responses map           *)
AcceptedWithSuccessor(sid) ==
    /\ GuidedTurn(sid)
    /\ last'.tr.failed \cap PersistenceFailures = {}
    /\ "responses" \in DOMAIN store[sid]
    /\ AnsweredStep(sid) # EmptyDict
    /\ _is_response_relevant(last'.msg, AnsweredStep(sid))
    /\ FindStep(flow_cache', AnsweredStep(sid).id + 1) # EmptyDict

(* C13: when process_response accepts an answer at step s and a step with   *)
(* id s + 1 exists, the stored session afterwards holds the trimmed answer  *)
(* under the field of step s, every other stored response as before,        *)
(* current_step = s + 1 and nothing else changed but last_updated, and the  *)
(* returned question and step_id are those of step s + 1.                   *)
C13_AcceptedAnswerAdvances ==
    [][\A sid \in SessionIds :
          AcceptedWithSuccessor(sid) =>
              LET s == AnsweredStep(sid)
                  next_step_data == FindStep(flow_cache', s.id + 1)
                  trimmed == Strip(last'.msg)
              IN  /\ store'[sid].responses[s.field] = trimmed
                  /\ Len(trimmed) = 0 \/
                        (~IsSpace(trimmed[1]) /\ ~IsSpace(trimmed[Len(trimmed)]))
                  /\ \E a, b \in 0..Len(last'.msg) :
                        /\ last'.msg = SubSeq(last'.msg, 1, a) \o trimmed
                                           \o SubSeq(last'.msg, Len(last'.msg) - b + 1,
                                                     Len(last'.msg))
                        /\ \A i \in 1..a : IsSpace(last'.msg[i])
                        /\ \A i \in (Len(last'.msg) - b + 1)..Len(last'.msg) :
                               IsSpace(last'.msg[i])
                  /\ DOMAIN store'[sid].responses =
                         DOMAIN store[sid].responses \cup {s.field}
                  /\ \A k \in DOMAIN store[sid].responses \ {s.field} :
                         store'[sid].responses[k] = store[sid].responses[k]
                  /\ store'[sid].current_step = s.id + 1
                  /\ \A k \in DOMAIN store[sid] \ {"responses", "current_step", "last_updated"} :
                         k \in DOMAIN store'[sid] /\ store'[sid][k] = store[sid][k]
                  /\ leads' = leads
                  /\ ~last'.raised
                  /\ last'.resp.question = next_step_data.question
                  /\ last'.resp.step_id = s.id + 1
                  /\ ~last'.resp.flow_completed
                  /\ ~last'.resp.ai_mode]_vars

(* C13 witness: the padded name was accepted at step 1 and the session is   *)
(* at step 2 with the trimmed name stored                                   *)
C13_Witness ==
    /\ last.op = "process_response"
    /\ last.msg = MariaPadded
    /\ "step_id" \in DOMAIN last.resp
    /\ last.resp.step_id = 2
    /\ last.resp.question = "Q_area_of_law"
    /\ store[last.sid].current_step = 2
    /\ store[last.sid].responses = [name |-> <<"M","a","r","i","a">>]


(* C14: whenever process_response advances to a next step, the returned     *)
(* is_final_step is true exactly when the new step's id is the id of the    *)
(* last step of the flow; the flows have unique, ascending ids, one of them *)
(* starting at 2.                                                           *)
C14_FinalStepIsLastStepOfFlow ==
    [][\A sid \in SessionIds :
          AcceptedWithSuccessor(sid) =>
              LET steps == flow_cache'.steps
              IN  /\ \A i, j \in 1..Len(steps) : i < j => steps[i].id < steps[j].id
                  /\ last'.resp.is_final_step
                         <=> (last'.resp.step_id = steps[Len(steps)].id)]_vars

-----------------------------------------------------------------------------
(* Phone numbers *)

DigitsOf(text) == SelectSeq(text, LAMBDA c : c \in Digits)

Phone13 == <<"5","5","1","1","9","9","9","9","9","9","9","9","9">>

(* C15: the digits kept are the digit characters of the text, in order; ten *)
(* digits d1 d2 r are formatted as 55 d1 d2 9 r and eleven digits n as 55 n *)
(* by both handlers, which makes 13 digits and the same number for the      *)
(* 10-digit and the 11-digit writing of one number (5511999999999 for       *)
(* 1199999999 and for 11999999999); the guided handler and the submission   *)
(* handler format every text of 10 or 11 digits alike.                      *)
C15_PhoneFormattingAgrees ==
    last.op = "phone_formatted" =>
        LET d == DigitsOf(last.msg)
        IN  /\ last.resp.phone_clean = d
            /\ Len(d) = 10 =>
                   /\ last.resp.submission =
                          <<"5","5", d[1], d[2], "9">> \o [i \in 1..8 |-> d[i + 2]]
                   /\ last.resp.submission =
                          FormatPhoneSubmission(<<d[1], d[2], "9">> \o [i \in 1..8 |-> d[i + 2]])
                   /\ last.resp.guided =
                          FormatPhoneGuided(<<d[1], d[2], "9">> \o [i \in 1..8 |-> d[i + 2]])
            /\ Len(d) = 11 =>
                   last.resp.submission = <<"5","5">> \o d
            /\ Len(d) \in {10, 11} =>
                   /\ last.resp.valid
                   /\ last.resp.guided = last.resp.submission
                   /\ Len(last.resp.guided) = 13
                   /\ \A i \in 1..13 : last.resp.guided[i] \in Digits
            /\ last.msg \in {Phone10, Phone11} =>
                   last.resp.guided = Phone13 /\ last.resp.submission = Phone13

(* C15 witness: the 10-digit writing of the example number was formatted by *)
(* both handlers                                                            *)
C15_Witness ==
    /\ last.op = "phone_formatted"
    /\ last.msg = Phone10
    /\ last.resp.valid
    /\ last.resp.guided = Phone13
    /\ last.resp.submission = Phone13


(* process_response on a stored session that is in PHONE_COLLECTION mode *)
PhoneTurn(sid) ==
    /\ last'.op = "process_response"
    /\ last'.sid = sid
    /\ sid \in DOMAIN store
    /\ ModeRank(store[sid]) = 1
    /\ "sread" \notin last'.tr.failed

(* C16: in PHONE_COLLECTION mode a message whose digit count is not 10 or   *)
(* 11 gets the re-prompt marked as a validation error; no session-store     *)
(* write is made or attempted, the bridge is not called, and the stored     *)
(* session stays in PHONE_COLLECTION with phone_collected false.            *)
C16_MalformedPhoneIsReprompted ==
    [][\A sid \in SessionIds :
          (PhoneTurn(sid) /\ Len(DigitsOf(last'.msg)) \notin {10, 11}) =>
              /\ ~last'.raised
              /\ Get(last'.resp, "question", "") = "PHONE_REPROMPT"
              /\ Flag(last'.resp, "validation_error")
              /\ last'.resp.collecting_phone
              /\ ~last'.resp.phone_collected
              /\ ~last'.resp.ai_mode
              /\ last'.tr.swrites = 0
              /\ "swrite" \notin last'.tr.failed
              /\ last'.tr.sent = <<>>
              /\ "bridge" \notin last'.tr.failed
              /\ store' = store
              /\ leads' = leads
              /\ ModeRank(store'[sid]) = 1
              /\ ~Flag(store'[sid], "phone_collected")]_vars

(* C16 witness: "11999" was sent in PHONE_COLLECTION mode and re-prompted   *)
C16_Witness ==
    /\ last.op = "process_response"
    /\ last.msg = Phone5
    /\ "validation_error" \in DOMAIN last.resp
    /\ last.resp.validation_error
    /\ ModeRank(store[last.sid]) = 1
    /\ ~Flag(store[last.sid], "phone_collected")

(* C18: in PHONE_COLLECTION mode, with the session store working, a message *)
(* of 10 or 11 digits stores the                                            *)
(* digits and the formatted number on the session with phone_collected and  *)
(* ai_mode true, changes nothing else but last_updated, and calls the       *)
(* messaging bridge exactly once, with the formatted number's address; the  *)
(* stored session does not depend on what the bridge did.                   *)
C18_PhoneIsStoredAndSentOnce ==
    [][\A sid \in SessionIds :
          (PhoneTurn(sid) /\ Len(DigitsOf(last'.msg)) \in {10, 11}
                          /\ "swrite" \notin last'.tr.failed) =>
              LET d == DigitsOf(last'.msg)
                  normalized == IF Len(d) = 10
                                THEN <<"5","5", d[1], d[2], "9">> \o [i \in 1..8 |-> d[i + 2]]
                                ELSE <<"5","5">> \o d
              IN  /\ store'[sid] = Update(store[sid],
                                          [phone_number |-> d,
                                           phone_formatted |-> normalized,
                                           phone_collected |-> TRUE,
                                           ai_mode |-> TRUE,
                                           last_updated |-> now])
                  /\ ModeRank(store'[sid]) = 2
                  /\ Len(last'.tr.sent) = 1
                  /\ last'.tr.sent[1].to = normalized \o WhatsAppSuffix
                  /\ last'.tr.gen = <<>>
                  /\ last'.tr.swrites = 1
                  /\ ~last'.raised
                  /\ last'.resp.phone_collected
                  /\ last'.resp.ai_mode]_vars

(* C18 witness: the phone was stored and the session moved to AI mode in a  *)
(* turn whose bridge call raised                                            *)
C18_Witness ==
    /\ last.op = "process_response"
    /\ last.msg = Phone10
    /\ last.tr.failed = {"bridge"}
    /\ Len(last.tr.sent) = 1
    /\ ~last.resp.whatsapp_sent
    /\ store[last.sid].phone_formatted = Phone13
    /\ store[last.sid].phone_collected
    /\ store[last.sid].ai_mode

-----------------------------------------------------------------------------
(* The handoff *)

(* handle_phone_number_submission was called for the session *)
SubmissionTurn(sid) ==
    /\ last'.op = "handle_phone_number_submission"
    /\ last'.sid = sid

(* C17: handle_phone_number_submission answers a phone whose digit count is *)
(* not 10 or 11 with a validation error, stores no phone number on the      *)
(* session and does not call the messaging bridge.                          *)
C17_SubmissionRejectsMalformedPhone ==
    [][\A sid \in SessionIds :
          (SubmissionTurn(sid) /\ Len(DigitsOf(last'.msg)) \notin {10, 11}) =>
              /\ \/ Flag(last'.resp, "validation_error")
                 \/ last'.resp.response_type = "error"
              /\ store' = store
              /\ last'.tr.sent = <<>>]_vars

(* A handoff was made by either path: the call reached the bridge *)
Handoff ==
    /\ last.op \in {"process_response", "handle_phone_number_submission"}
    /\ last.tr.sent # <<>>

(* C19: a handoff whose bridge call returned false or raised still returns  *)
(* the confirmation, with whatsapp_sent false; whatsapp_sent is true only   *)
(* when the bridge reported success.                                        *)
C19_SentFlagReportsTheBridge ==
    Handoff =>
        /\ ~last.raised
        /\ Len(last.tr.sent) = 1
        /\ "whatsapp_sent" \in DOMAIN last.resp
        /\ last.resp.whatsapp_sent <=> (last.tr.sent[1].result = "true")
        /\ last.tr.sent[1].result = "raise" <=> ("bridge" \in last.tr.failed)
        /\ last.resp.phone_number = DigitsOf(last.msg)
        /\ IF last.op = "process_response"
           THEN /\ last.resp.response = "PHONE_CONFIRMATION"
                /\ last.resp.phone_collected
           ELSE last.resp.response_type = "phone_submitted"

(* C19 witness: a submitted phone whose bridge call returned false *)
C19_Witness ==
    /\ last.op = "handle_phone_number_submission"
    /\ last.msg = PhonePunctuated
    /\ Len(last.tr.sent) = 1
    /\ last.tr.sent[1].result = "false"
    /\ last.resp.response_type = "phone_submitted"
    /\ ~last.resp.whatsapp_sent

(* C20: every address passed to the messaging bridge, by guided phone       *)
(* collection or by phone submission, is 13 digits, 55 followed by a        *)
(* 2-digit area code and a 9-digit number, followed by "@" and the suffix.  *)
C20_BridgeAddressesAreNormalized ==
    \A i \in 1..Len(last.tr.sent) :
        LET to == last.tr.sent[i].to
        IN  /\ Len(to) = 13 + Len(WhatsAppSuffix)
            /\ \A k \in 1..13 : to[k] \in Digits
            /\ to[1] = "5" /\ to[2] = "5"
            /\ to[14] = "@"
            /\ SubSeq(to, 14, Len(to)) = WhatsAppSuffix


-----------------------------------------------------------------------------
(* Lead extraction in the AI-first strategy *)

LeadFields == {"name", "area_of_law", "situation", "consent"}

LeadDataOf(st, sid) ==
    IF sid \in DOMAIN st THEN Get(st[sid], "lead_data", EmptyDict) ELSE EmptyDict

(* The fields of a lead_data that are set: a text that is not empty, a consent that is given *)
SetFields(lead_data) ==
    {f \in LeadFields \cap DOMAIN lead_data :
        IF f = "consent" THEN lead_data[f] = TRUE ELSE lead_data[f] # <<>>}

(* C21: lead extraction is first-write-wins.  _extract_lead_info applied to *)
(* the stored session never returns a field that is already set there, and  *)
(* a process_message turn leaves every field of the stored lead_data that   *)
(* was set before the turn (name, area_of_law, situation, consent) with the *)
(* value it had.                                                            *)
C21_FirstWriteWins ==
    [][last'.op = "process_message" /\ last'.sid \in DOMAIN store =>
          LET before == LeadDataOf(store, last'.sid)
              after == LeadDataOf(store', last'.sid)
          IN  /\ DOMAIN _extract_lead_info(last'.msg, store[last'.sid])
                     \cap SetFields(before) = {}
              /\ \A f \in SetFields(before) :
                     f \in DOMAIN after /\ after[f] = before[f]]_vars


(* The session a process_message turn works on: the stored session when it  *)
(* exists and was read, a new session otherwise.                            *)
TurnSession(sid, failed) ==
    IF sid \in DOMAIN store /\ "sread" \notin failed
    THEN store[sid]
    ELSE [lead_data |-> EmptyDict, lead_saved |-> FALSE]

(* lead_data after the extraction from the turn's message is merged *)
MergedLeadData(sid, message, failed) ==
    LET session_data == TurnSession(sid, failed)
    IN  Update(Get(session_data, "lead_data", EmptyDict),
               _extract_lead_info(message, session_data))

ReadyToPersist(sid, message, failed) ==
    LET merged == SetFields(MergedLeadData(sid, message, failed))
    IN  /\ "name" \in merged
        /\ merged \cap {"area_of_law", "situation", "consent"} # {}
        /\ ~Flag(TurnSession(sid, failed), "lead_saved")

(* C22: a process_message turn persists a LeadRecord only if, after the     *)
(* turn's extraction is merged, the lead_data of the session it works on    *)
(* holds a name and at least one of area_of_law, situation, consent, and    *)
(* that session's lead_saved flag is false; when that holds and no store    *)
(* call fails, the turn persists exactly one LeadRecord and the stored      *)
(* session has lead_saved true and a lead_id.                               *)
C22_LeadPersistedWhenReady ==
    [][last'.op = "process_message" =>
          LET sid == last'.sid
              ready == ReadyToPersist(sid, last'.msg, last'.tr.failed)
          IN  /\ Len(leads') # Len(leads) => ready
              /\ ready /\ last'.tr.failed \cap {"sread", "swrite", "lead"} = {} =>
                     /\ Len(leads') = Len(leads) + 1
                     /\ sid \in DOMAIN store'
                     /\ Flag(store'[sid], "lead_saved")
                     /\ "lead_id" \in DOMAIN store'[sid]]_vars

(* a turn with working collaborators has just persisted the session's LeadRecord *)
C22_Witness ==
    /\ last.op = "process_message"
    /\ last.tr.failed = {}
    /\ Len(leads) = 1
    /\ last.sid \in DOMAIN store
    /\ Flag(store[last.sid], "lead_saved")
    /\ "lead_id" \in DOMAIN store[last.sid]
    /\ Get(store[last.sid], "message_count", 0) = leads[1].message_count + 1


-----------------------------------------------------------------------------
(* Generation failures *)

(* A field of a stored session as a sequence: empty when the session or the field is absent *)
StoredField(st, sid, f) ==
    IF sid \in DOMAIN st /\ f \in DOMAIN st[sid] THEN <<st[sid][f]>> ELSE <<>>

ModeFlagNames == {"flow_completed", "phone_collected", "ai_mode"}

SessionStateNames == {"lead_data", "message_count", "last_response", "current_step", "responses"}

(* C23: a turn on a stored session whose generation call fails returns the  *)
(* fixed apology text, and leaves the stored session's mode flags and its  *)
(* lead_data, message_count, last_response, current_step and responses as   *)
(* they were before the turn.                                               *)
C23_GenerationFailureChangesNothing ==
    [][last'.tr.gen_failed /\ last'.sid \in DOMAIN store =>
          /\ Get(last'.resp, "response", "") = "AI_FALLBACK"
          /\ \A f \in ModeFlagNames \cup SessionStateNames :
                 StoredField(store', last'.sid, f) = StoredField(store, last'.sid, f)]_vars


-----------------------------------------------------------------------------
(* Error results *)

(* The texts of the internal errors the operations catch *)
InternalErrors == {"KeyError", "flow"}

(* C24: the result an orchestrator operation returns after an internal      *)
(* failure carries only the generic message: no field of it holds the text  *)
(* of the internal error (the one field that can hold a text other than the *)
(* fixed ones is `error`), so results do not differ with the error raised.  *)
C24_ResultsHideInternalErrors ==
    Get(last.resp, "error", "") \notin InternalErrors


-----------------------------------------------------------------------------
(* Calls to the collaborators during one turn *)

TurnOperations == {"process_response", "process_message"}

(* C25: one process_response or process_message call, on every path and in  *)
(* every error fallback, calls the generation service at most once and the *)
(* messaging bridge at most once.                                           *)
C25_AtMostOneGenerationAndOneBridgeCall ==
    last.op \in TurnOperations =>
        Len(last.tr.gen) <= 1 /\ Len(last.tr.sent) <= 1

(* a guided turn answered by the fallback to generation after its generation call failed *)
C25_Witness ==
    /\ last.op = "process_response"
    /\ last.tr.gen_failed
    /\ Len(last.tr.gen) = 1
    /\ Flag(last.resp, "ai_mode")


-----------------------------------------------------------------------------
(* The flow cache *)

(* C26: the flow cache is refreshed on a 300-second TTL.  A get_flow call   *)
(* that returns reloads the flow when the cached value is older than 300    *)
(* seconds, whatever its age, and only then: the flow it returns was loaded *)
(* at most 300 seconds ago, and a cache loaded at most 300 seconds ago      *)
(* keeps its load time.                                                     *)
C26_CacheNeverStalerThanTTL ==
    [][last'.op = "get_flow" /\ ~last'.raised =>
          /\ now - cache_timestamp' <= CacheTTL
          /\ (flow_cache # NoFlow /\ now - cache_timestamp <= CacheTTL) =>
                 cache_timestamp' = cache_timestamp]_vars


-----------------------------------------------------------------------------
(* area_of_law extraction *)

(* The keywords in the dictionary's order, each with its label *)
KeywordOrder ==
    << <<"p","e","n","a","l">>,
       <<"c","r","i","m","i","n","a","l">>,
       <<"c","i","v","i","l">>,
       <<"t","r","a","b","a","l","h","i","s","t","a">>,
       <<"t","r","a","b","a","l","h","o">>,
       <<"f","a","m","í","l","i","a">>,
       <<"d","i","v","ó","r","c","i","o">>,
       <<"e","m","p","r","e","s","a","r","i","a","l">>,
       <<"e","m","p","r","e","s","a">> >>

KeywordLabel(i) ==
    IF i <= 2 THEN DireitoPenal
    ELSE IF i = 3 THEN DireitoCivil
    ELSE IF i <= 5 THEN DireitoTrabalhista
    ELSE IF i <= 7 THEN DireitoDeFamilia
    ELSE DireitoEmpresarial

(* C29: the area_of_law extracted from a message is the label of the first  *)
(* keyword, in the order penal, criminal, civil, trabalhista, trabalho,     *)
(* família, divórcio, empresarial, empresa, that occurs in the lower-cased  *)
(* message; a message with several keywords yields the label of the         *)
(* earliest of them in that order, a message with none yields no            *)
(* area_of_law.                                                             *)
C29_FirstKeywordInOrderWins ==
    last.op = "_extract_lead_info" =>
        LET text == Lower(last.msg)
            found == {i \in 1..Len(KeywordOrder) : Occurs(KeywordOrder[i], text)}
        IN  /\ found = {} => "area_of_law" \notin DOMAIN last.resp
            /\ \A i \in found :
                   (\A j \in found : i <= j) =>
                       Get(last.resp, "area_of_law", <<>>) = KeywordLabel(i)

(* a message naming civil before penal is given the label of penal *)
C29_Witness ==
    /\ last.op = "_extract_lead_info"
    /\ last.msg = CivilPenal
    /\ Get(last.resp, "area_of_law", <<>>) = DireitoPenal


-----------------------------------------------------------------------------
(* The context handed to generation *)

SecondsPerMinute == 60

(* C30: the session_age_minutes of the context process_message builds is    *)
(* the number of whole minutes between the session's created_at and the     *)
(* current time, whatever the session's age.                                *)
C30_SessionAgeIsElapsedMinutes ==
    (/\ last.op = "process_message"
     /\ Len(last.tr.ctx) = 1
     /\ last.sid \in DOMAIN store
     /\ "created_at" \in DOMAIN store[last.sid]) =>
        last.tr.ctx[1].session_age_minutes
            = (now - store[last.sid].created_at) \div SecondsPerMinute


-----------------------------------------------------------------------------
(* The history passed to the generation service *)

(* The window the memory of a session is created with (k) *)
HistoryWindow == 10

(* C27: in whatever session and after however many turns, the history a     *)
(* generate call passes to the generation service holds at most the 10     *)
(* most recent turns of the session.                                        *)
C27_HistoryHoldsAtMostTenTurns ==
    \A i \in 1..Len(last.tr.hist) : TurnsIn(last.tr.hist[i]) <= HistoryWindow


-----------------------------------------------------------------------------
(* Independence of sessions *)

(* What belongs to one session: its stored document, its generation memory, its lead records *)
SessionOf(st, sid) == IF sid \in DOMAIN st THEN <<st[sid]>> ELSE <<>>

LeadRecordsOf(ls, sid) == SelectSeq(ls, LAMBDA l : Get(l, "session_id", "") = sid)

(* The identifier the lead store gives a record depends on the records of   *)
(* all sessions; the rest of a stored session does not                      *)
WithoutLeadId(session) ==
    [s \in 1..Len(session) |->
        [k \in DOMAIN session[s] \ {"lead_id"} |-> session[s][k]]]

(* The trace of a call, the session writes it issued taken without lead_id *)
WithoutCallLeadIds(tr) ==
    [tr EXCEPT !.calls =
        [i \in 1..Len(tr.calls) |->
            [name |-> tr.calls[i].name,
             data |-> [k \in DOMAIN tr.calls[i].data \ {"lead_id"} |-> tr.calls[i].data[k]]]]]

(* The world with the documents, memory and lead records of one session only *)
Alone(sid) ==
    [World EXCEPT
        !.store = [s \in DOMAIN store \cap {sid} |-> store[s]],
        !.mem = [s \in DOMAIN conversation_memories \cap {sid} |-> conversation_memories[s]],
        !.leads = LeadRecordsOf(leads, sid)]

(* C28: turns of different sessions are independent.  A process_message     *)
(* turn of one session leaves the stored session, the generation memory    *)
(* and the lead records of every other session as they were; and what the   *)
(* turn returns, passes to generation and stores for its own session is     *)
(* what it returns, passes and stores when no other session has ever been   *)
(* served.                                                                  *)
C28_SessionsAreIndependent ==
    [][last'.op = "process_message" =>
          /\ \A other \in MemorySessionIds \ {last'.sid} :
                 /\ SessionOf(store', other) = SessionOf(store, other)
                 /\ SessionOf(conversation_memories', other)
                        = SessionOf(conversation_memories, other)
                 /\ LeadRecordsOf(leads', other) = LeadRecordsOf(leads, other)
          /\ \E env \in GenEnvs :
                 LET sid == last'.sid
                     alone == process_message(Alone(sid), last'.msg, sid, None, "web", env)
                 IN  /\ alone.resp = last'.resp
                     /\ WithoutCallLeadIds(alone.w.tr) = WithoutCallLeadIds(last'.tr)
                     /\ WithoutLeadId(SessionOf(alone.w.store, sid))
                            = WithoutLeadId(SessionOf(store', sid))
                     /\ SessionOf(alone.w.mem, sid) = SessionOf(conversation_memories', sid)
                     /\ LeadRecordsOf(alone.w.leads, sid) = LeadRecordsOf(leads', sid)]_vars

(* a turn of one session while the other session has its lead record, its   *)
(* memory and its stored document                                           *)
C28_Witness ==
    /\ last.op = "process_message"
    /\ last.sid = "s2"
    /\ last.tr.failed = {}
    /\ LeadRecordsOf(leads, "s1") # <<>>
    /\ LeadRecordsOf(leads, "s2") # <<>>
    /\ "s1" \in DOMAIN conversation_memories
    /\ "s1" \in DOMAIN store


-----------------------------------------------------------------------------
(* process_response on a session in AI mode *)

(* C31: process_response on a stored session in AI mode (ai_mode,           *)
(* flow_completed and phone_collected true) only passes the message to the  *)
(* generation service: it writes nothing to the session store or the lead   *)
(* store, does not call the messaging bridge, and leaves current_step,      *)
(* responses and the flags of the stored session as they were.              *)
C31_AIModeOnlyDelegates ==
    [][(/\ last'.op = "process_response"
        /\ last'.sid \in DOMAIN store
        /\ ForcedAI(store[last'.sid])) =>
          /\ last'.tr.gen = <<last'.msg>>
          /\ last'.tr.swrites = 0
          /\ leads' = leads
          /\ last'.tr.sent = <<>>
          /\ \A f \in ModeFlagNames \cup {"current_step", "responses"} :
                 StoredField(store', last'.sid, f) = StoredField(store, last'.sid, f)]_vars


(* ---------------------------------------------------------------------- *)
(* The mode flags of stored sessions                                      *)
(* ---------------------------------------------------------------------- *)
(* The ConversationManager operations with a working session store: the   *)
(* flow store, the lead store, the generation service and the bridge may   *)
(* fail, session reads and writes do not.                                  *)
ManagerEnvs ==
    {env \in Envs : Failures(env) \subseteq {"flow", "lead", "gen", "bridge"}}

NextManager ==
    \/ \E sid \in SessionIds, env \in ManagerEnvs : StartConversation(sid, env)
    \/ \E sid \in SessionIds, msg \in TurnMessages, env \in ManagerEnvs :
           ProcessResponse(sid, msg, env)
    \/ \E sid \in SessionIds, env \in ManagerEnvs : GetConversationStatus(sid, env)

SpecManager == Init /\ [][NextManager]_vars

(* C32: with a working session store, in every state reached through the   *)
(* ConversationManager operations each stored session has ai_mode only     *)
(* together with flow_completed and phone_collected, and phone_collected    *)
(* only together with ai_mode: the flags denote GUIDED (all false),         *)
(* PHONE_COLLECTION (only flow_completed) or AI (all true).                 *)
C32_FlagsDenoteOneMode ==
    \A sid \in DOMAIN store :
        LET d == store[sid]
        IN  /\ Flag(d, "ai_mode") => Flag(d, "flow_completed") /\ Flag(d, "phone_collected")
            /\ Flag(d, "phone_collected") => Flag(d, "ai_mode")

C32_Witness ==
    /\ last.op = "process_response"
    /\ \E sid \in DOMAIN store :
           /\ "phone_number" \in DOMAIN store[sid]
           /\ Flag(store[sid], "phone_collected")
           /\ Flag(store[sid], "ai_mode")
           /\ Flag(store[sid], "flow_completed")


(* ---------------------------------------------------------------------- *)
(* The handoff message of a guided session                                *)
(* ---------------------------------------------------------------------- *)
(* C33: over the guided process_response turns of one session, turns whose *)
(* session-store write fails included, the handoff message goes through    *)
(* the messaging bridge at most once: a process_response turn that follows *)
(* a process_response turn of the same session which sent the handoff      *)
(* sends nothing.                                                          *)
C33_HandoffSentAtMostOnce ==
    [][(/\ last.op = "process_response"
        /\ last.tr.sent # <<>>
        /\ last'.op = "process_response"
        /\ last'.sid = last.sid) => last'.tr.sent = <<>>]_vars


(* ---------------------------------------------------------------------- *)
(* What a guided response reports of the session                          *)
(* ---------------------------------------------------------------------- *)
ManagerOperations == {"start_conversation", "process_response"}

(* C34: after every start_conversation or process_response call that       *)
(* returns, the step_id and the flags flow_completed, ai_mode and           *)
(* phone_collected which the response reports equal the values of the       *)
(* stored session at the end of the turn, also when the session-store       *)
(* write of the turn fails.                                                 *)
C34_ResponseReportsStoredSession ==
    [][(/\ last'.op \in ManagerOperations
        /\ ~last'.raised) =>
          /\ \A f \in ModeFlagNames \cap DOMAIN last'.resp :
                 StoredField(store', last'.sid, f) = <<last'.resp[f]>>
          /\ "step_id" \in DOMAIN last'.resp =>
                 StoredField(store', last'.sid, "current_step") = <<last'.resp.step_id>>]_vars


(* ---------------------------------------------------------------------- *)
(* The order of the session write and the bridge send in a handoff        *)
(* ---------------------------------------------------------------------- *)
HandoffOperations == {"process_response", "handle_phone_number_submission"}

(* The write which records the phone number: on the guided path it also    *)
(* records phone_collected and ai_mode.                                    *)
RecordsPhone(op, call) ==
    /\ call.name = "save_user_session"
    /\ "phone_number" \in DOMAIN call.data
    /\ op = "process_response" =>
           Flag(call.data, "phone_collected") /\ Flag(call.data, "ai_mode")

(* C35: in both handoff paths the bridge send is invoked only after the    *)
(* session write which records the phone number (on the guided path with   *)
(* phone_collected and ai_mode true) has been issued: within a turn no     *)
(* bridge send precedes that write.                                        *)
C35_SendFollowsPhoneWrite ==
    [][last'.op \in HandoffOperations =>
          LET calls == last'.tr.calls
          IN  \A i \in 1..Len(calls) :
                  calls[i] = BridgeCall =>
                      \E j \in 1..(i - 1) : RecordsPhone(last'.op, calls[j])]_vars

C35_Witness ==
    /\ last.op = "process_response"
    /\ Len(last.tr.calls) = 2
    /\ RecordsPhone(last.op, last.tr.calls[1])
    /\ last.tr.calls[2] = BridgeCall
    /\ Len(last.tr.sent) = 1


(* ---------------------------------------------------------------------- *)
(* The lead store after a LeadRecord is created                           *)
(* ---------------------------------------------------------------------- *)
(* Both strategies and the phone submission on one session, every          *)
(* collaborator working: a guided session up to the phone turn, AI-first    *)
(* turns which extract a name and an area in the first message and a        *)
(* situation or a consent in the next, a phone submitted before or after.   *)
LeadMessages == {MariaSilva, CivilPenal, Preciso, Sim}

LeadPhones == {Phone10}

NextLeads ==
    \/ \E sid \in SessionIds : sid \notin DOMAIN store /\ StartConversation(sid, OkEnv)
    \/ \E sid \in SessionIds, msg \in TurnMessages : ProcessResponse(sid, msg, OkEnv)
    \/ \E sid \in SessionIds, message \in LeadMessages : ProcessMessage(sid, message, OkEnv)
    \/ \E sid \in SessionIds, phone \in LeadPhones : SubmitPhone(sid, phone, OkEnv)

SpecLeads == Init /\ [][NextLeads]_vars

C37_ProcessMessageAnswersAfterSubmission ==
    [][(/\ last'.op = "process_message"
        /\ last'.tr.failed = {}
        /\ ~last'.tr.gen_failed) =>
          Get(last'.resp, "response_type", "") = "ai_intelligent"]_vars


(* ---------------------------------------------------------------------- *)
(* Progress of a guided session                                           *)
(* ---------------------------------------------------------------------- *)
(* A guided session whose every answer is accepted: the message is         *)
(* accepted by the relevance heuristic at the session's step, or, when the *)
(* flow is completed, holds 10 or 11 digits.  Every collaborator works.    *)
ProgressMessages == {MariaSilva, AnaSouza, Civil, Preciso, Sim, Phone10, Phone11}

AcceptedAt(d, msg) ==
    IF Flag(d, "flow_completed")
    THEN Len(DigitsOf(msg)) \in {10, 11}
    ELSE /\ flow_cache # NoFlow
         /\ FindStep(flow_cache, Get(d, "current_step", 1)) # EmptyDict
         /\ _is_response_relevant(msg, FindStep(flow_cache, Get(d, "current_step", 1)))

AcceptedAnswer(sid, msg) ==
    /\ sid \in DOMAIN store
    /\ ~Flag(store[sid], "ai_mode")
    /\ AcceptedAt(store[sid], msg)
    /\ ProcessResponse(sid, msg, OkEnv)

StartFresh ==
    \E sid \in SessionIds : sid \notin DOMAIN store /\ StartConversation(sid, OkEnv)

Answers ==
    \E sid \in SessionIds, msg \in ProgressMessages : AcceptedAnswer(sid, msg)

NextProgress == StartFresh \/ Answers

(* An accepted answer can be given: the enabling condition of Answers *)
CanAnswer ==
    \E sid \in SessionIds, msg \in ProgressMessages :
        /\ sid \in DOMAIN store
        /\ ~Flag(store[sid], "ai_mode")
        /\ AcceptedAt(store[sid], msg)

(* Weak fairness of Answers, written with its enabling condition: an       *)
(* answer that can be given is given, and the call returns.                *)
AnswersFairly == []<>(~CanAnswer) \/ []<><<Answers>>_vars

(* The conversation is started, the user keeps answering and every call    *)
(* returns.                                                                *)
SpecProgress ==
    Init /\ [][NextProgress]_vars /\ WF_vars(StartFresh) /\ AnswersFairly

StepOf(st, sid) == Get(st[sid], "current_step", 1)

(* current_step of a stored session never decreases *)
StepNeverDecreases ==
    \A sid \in DOMAIN store :
        sid \in DOMAIN store' /\ StepOf(store', sid) >= StepOf(store, sid)

(* the turn is an accepted answer of a session in GUIDED mode *)
GuidedAnswerAccepted(sid) ==
    /\ GuidedTurn(sid)
    /\ AcceptedAt(store[sid], last'.msg)

ReachesAIMode ==
    \A sid \in SessionIds :
        (sid \in DOMAIN store) ~> (sid \in DOMAIN store /\ Flag(store[sid], "ai_mode"))

(* C38 as stated: current_step strictly increases with each accepted       *)
(* answer, never decreases, and the session eventually has ai_mode true.   *)
C38_EveryAcceptedAnswerAdvances ==
    /\ [][StepNeverDecreases]_vars
    /\ [][\A sid \in SessionIds :
              GuidedAnswerAccepted(sid) => StepOf(store', sid) > StepOf(store, sid)]_vars
    /\ ReachesAIMode

(* C38: with a working flow store, session store, lead store and bridge, a *)
(* guided session whose every answer is accepted and whose phone message   *)
(* has 10 or 11 digits eventually reaches AI mode: current_step never      *)
(* decreases, increases by one with each accepted answer at a step that    *)
(* has a successor, and stays at the last step when its answer is          *)
(* accepted, which completes the flow; after the phone turn the stored     *)
(* session has ai_mode true.                                               *)
C38_GuidedSessionReachesAIMode ==
    /\ [][StepNeverDecreases]_vars
    /\ [][\A sid \in SessionIds :
              GuidedAnswerAccepted(sid) =>
                  IF FindStep(flow_cache, StepOf(store, sid) + 1) # EmptyDict
                  THEN /\ StepOf(store', sid) = StepOf(store, sid) + 1
                       /\ ~Flag(store'[sid], "flow_completed")
                  ELSE /\ StepOf(store', sid) = StepOf(store, sid)
                       /\ Flag(store'[sid], "flow_completed")]_vars
    /\ [][\A sid \in SessionIds :
              (PhoneTurn(sid) /\ AcceptedAt(store[sid], last'.msg)) =>
                  Flag(store'[sid], "ai_mode")]_vars
    /\ ReachesAIMode

C38_Witness ==
    /\ last.op = "process_response"
    /\ last.msg \in {Phone10, Phone11}
    /\ last.sid \in DOMAIN store
    /\ Flag(store[last.sid], "ai_mode")
    /\ flow_cache # NoFlow
    /\ StepOf(store, last.sid) = Len(flow_cache.steps)
    /\ DOMAIN store[last.sid].responses = {flow_cache.steps[i].field : i \in 1..Len(flow_cache.steps)}


(* ---------------------------------------------------------------------- *)
(* The shape of the generation memory                                     *)
(* ---------------------------------------------------------------------- *)
MessagesOf(mem, sid) == Get(mem, sid, <<>>)

(* user and AI messages alternate, a user message first, an AI message last *)
Alternates(messages) ==
    /\ Len(messages) % 2 = 0
    /\ \A i \in 1..Len(messages) :
           messages[i].type = (IF i % 2 = 1 THEN "human" ELSE "ai")

(* C39: the generation memory of a session grows only by one user message   *)
(* followed by one AI message per successful generate_response call: in     *)
(* every reachable state it holds equally many user and AI messages in      *)
(* strict alternation, a user message first, and a generate_response call   *)
(* whose generation fails leaves the memory as it was.                      *)
C39_MemoryGrowsByWholeTurns ==
    /\ [](\A sid \in DOMAIN conversation_memories :
              Alternates(conversation_memories[sid]))
    /\ [][last'.op = "generate_response" =>
            /\ \A sid \in MemorySessionIds \ {last'.sid} :
                   MessagesOf(conversation_memories', sid)
                       = MessagesOf(conversation_memories, sid)
            /\ MessagesOf(conversation_memories', last'.sid)
                   = IF last'.tr.gen_failed
                     THEN MessagesOf(conversation_memories, last'.sid)
                     ELSE MessagesOf(conversation_memories, last'.sid)
                              \o <<[type |-> "human", content |-> last'.msg],
                                   [type |-> "ai", content |-> last'.resp.response]>>]_vars

(* A failed generate_response call on a session whose memory holds a turn *)
C39_Witness ==
    /\ last.op = "generate_response"
    /\ last.tr.gen_failed
    /\ Len(MessagesOf(conversation_memories, last.sid)) = 2
    /\ Alternates(MessagesOf(conversation_memories, last.sid))


(* ---------------------------------------------------------------------- *)
(* What save_lead_data stores                                             *)
(* ---------------------------------------------------------------------- *)
(* Leads written by both strategies while the clock advances between the   *)
(* creation of a session and the write of its lead.                        *)
WriteMessages == {CivilPenal, Sim}

NextWrites ==
    \/ \E sid \in SessionIds : sid \notin DOMAIN store /\ StartConversation(sid, OkEnv)
    \/ \E sid \in SessionIds, msg \in TurnMessages : ProcessResponse(sid, msg, OkEnv)
    \/ \E sid \in SessionIds, message \in WriteMessages : ProcessMessage(sid, message, OkEnv)
    \/ Advance

SpecWrites == Init /\ [][NextWrites]_vars

(* C40: every LeadRecord which save_lead_data writes is stored with status  *)
(* "new" and source "chatbot_intake", whatever status the caller compiled   *)
(* ("intake_completed" in the guided flow, "ai_collected" on the AI-first    *)
(* path), and with created_at set to the time of the write, not to the      *)
(* caller's value.                                                          *)
C40_LeadsAreStoredAsNew ==
    [][\A i \in (Len(leads) + 1)..Len(leads') :
           /\ leads'[i].status = "new"
           /\ leads'[i].source = "chatbot_intake"
           /\ leads'[i].created_at = now]_vars

(* A lead of the AI-first path written after the clock has advanced: the    *)
(* session, whose created_at the caller compiled, is older than the lead.   *)
C40_Witness ==
    /\ last.op = "process_message"
    /\ last.sid \in DOMAIN store
    /\ \E i \in LeadsOf(last.sid) :
           /\ leads[i].status = "new"
           /\ leads[i].created_at = now
           /\ Get(store[last.sid], "created_at", now) < leads[i].created_at

=============================================================================
